---------------------------- MODULE Spec2Model ----------------------------
(***************************************************************************)
(* A model of the Webflow CMS sync engine:                                  *)
(*   - the rate limiter (src/src/utils/rate-limiter.ts),                    *)
(*   - the remote state reader (src/src/utils/webflow.ts),                  *)
(*   - the batch operators (src/src/utils/batch.ts),                        *)
(*   - syncCollection (src/src/utils/sync.ts),                              *)
(*   - the reference cleaner (src/src/utils/cleanup.ts),                    *)
(*   - the orchestrators syncAll and cleanupAll (src/src/sync/).            *)
(* The remote service is the environment: it stores what it is sent, and    *)
(* any request may fail.                                                     *)
(***************************************************************************)
EXTENDS Integers, Sequences, FiniteSets, TLC

VARIABLES
  \* ---- rate limiter (createRateLimiter) ----
  minTime,          \* options.minTime
  maxTokens,        \* options.maxTokens
  refillInterval,   \* options.refillInterval
  tokens,           \* let tokens
  lastRequestTime,  \* let lastRequestTime
  now,              \* Date.now()
  nextRefill,       \* when the setInterval timer is due next
  opState,          \* per scheduled operation: where its queue callback is
  opWake,           \* per operation: when its pending delay() is due
  opStart,          \* per operation: Date.now() when fn() was called, or -1
  opResult,         \* per operation: what the promise returned by schedule holds
  \* ---- remote service and local data ----
  remote,           \* per collection: the items the remote service holds, in listing order
  local,            \* per collection: the local entities handed to the engine
  nextId,           \* the remote id the service gives to the next created item
  fails,            \* remote requests that did not succeed so far
  failLimit,        \* how many remote requests may not succeed in this behaviour
  limit,            \* the per-request item limit the batch loops run with
  lastReq,          \* the last remote request issued
  pg,               \* the local state of a running paginated listing loop
  \* ---- syncCollection ----
  sy,               \* per collection: the local state of its syncCollection call
  \* ---- syncAll and cleanupAll ----
  cu                \* the local state of the running syncAll or cleanupAll call

rlVars == <<minTime, maxTokens, refillInterval, tokens, lastRequestTime, now,
            nextRefill, opState, opWake, opStart, opResult>>

envVars == <<remote, local, nextId, fails, failLimit, limit, lastReq, pg>>

vars == <<rlVars, envVars, sy, cu>>

(***************************************************************************)
(* Bounds of the model.                                                     *)
(***************************************************************************)
MaxOps == 3       \* operations handed to one scheduler in a behaviour
MaxTime == 7      \* clock ticks after the scheduler's construction

(***************************************************************************)
(* RATE LIMITER                                                             *)
(***************************************************************************)
Ops == 1..MaxOps

\* Date.now() at construction. lastRequestTime starts at 0 and Date.now() is
\* far beyond any minTime, so the first operation never waits for spacing.
Epoch == 4

MinTimes == {0, 2, 3}
MaxTokenss == {1, 2}
RefillIntervals == {2, 3}

Pending == [kind |-> "pending", of |-> 0]
Fulfilled(i) == [kind |-> "ok", of |-> i]
Rejected(i) == [kind |-> "err", of |-> i]

Settled(i) == opState[i] \in {"ok", "err", "skipped"}

\* setInterval callback: if (tokens < maxTokens) tokens++
RefillTokens_NoCap(t, max) == t + 1
RefillTokens_Never(t, max) == t
RefillTokens(t, max) == IF t < max THEN t + 1 ELSE t

\* waitForSlot: while (tokens <= 0) await delay(refillInterval)
NoToken_OffByOne(t) == t < 0
NoToken(t) == t <= 0

\* waitForSlot: if (elapsed < minTime) await delay(minTime - elapsed)
SpacingDelay_None(elapsed, min) == 0
SpacingDelay(elapsed, min) == IF elapsed < min THEN min - elapsed ELSE 0

\* queue = result.then(() => {}, () => {}): the callback of operation i is
\* chained onto the queue promise left by operation i-1, which settles when
\* that operation's result settles.
QueueSettled_Unchained(i) == TRUE
QueueSettled_OnStart(i) == IF i = 1 THEN TRUE ELSE opState[i - 1] \notin {"unscheduled", "queued"}
QueueSettled(i) == IF i = 1 THEN TRUE ELSE Settled(i - 1)

\* The second handler swallows a rejection, so the queue promise is never
\* rejected. (Without it, the queue promise would carry the earlier error.)
QueueRejected_NoSwallow(i) == i > 1 /\ opResult[i - 1].kind = "err"
QueueRejected(i) == FALSE

InitRL ==
  /\ minTime \in MinTimes
  /\ maxTokens \in MaxTokenss
  /\ refillInterval \in RefillIntervals
  /\ tokens \in 0..maxTokens
  /\ lastRequestTime = 0
  /\ now = Epoch
  /\ nextRefill = Epoch + refillInterval
  /\ opState = [i \in Ops |-> "unscheduled"]
  /\ opWake = [i \in Ops |-> 0]
  /\ opStart = [i \in Ops |-> -1]
  /\ opResult = [i \in Ops |-> Pending]

rlOptions == <<minTime, maxTokens, refillInterval>>

\* schedule(fn): chain a callback onto the queue and return its promise.
Schedule(i) ==
  /\ opState[i] = "unscheduled"
  /\ IF i = 1 THEN TRUE ELSE opState[i - 1] # "unscheduled"
  /\ opState' = [opState EXCEPT ![i] = "queued"]
  /\ UNCHANGED <<envVars, sy, cu, rlOptions, tokens, lastRequestTime, now, nextRefill,
                 opWake, opStart, opResult>>

\* tokens--; lastRequestTime = Date.now(); return fn();
\* opWake keeps the due time of the last delay() the operation waited for
\* (0 when it never waited).
StartOp(i) ==
  /\ tokens' = tokens - 1
  /\ lastRequestTime' = now
  /\ opState' = [opState EXCEPT ![i] = "running"]
  /\ opStart' = [opStart EXCEPT ![i] = now]
  /\ opWake' = opWake

\* waitForSlot after the token loop: the spacing check.
CheckSpacing(i) ==
  LET d == SpacingDelay(now - lastRequestTime, minTime) IN
  IF d > 0
    THEN /\ opState' = [opState EXCEPT ![i] = "waitSpacing"]
         /\ opWake' = [opWake EXCEPT ![i] = now + d]
         /\ UNCHANGED <<tokens, lastRequestTime, opStart>>
    ELSE StartOp(i)

\* waitForSlot from its top: the token loop, then the spacing check.
WaitForSlot(i) ==
  IF NoToken(tokens)
    THEN /\ opState' = [opState EXCEPT ![i] = "waitToken"]
         /\ opWake' = [opWake EXCEPT ![i] = now + refillInterval]
         /\ UNCHANGED <<tokens, lastRequestTime, opStart>>
    ELSE CheckSpacing(i)

\* The queue promise settled: the callback chained by schedule runs.
Dequeue(i) ==
  /\ opState[i] = "queued"
  /\ QueueSettled(i)
  /\ IF QueueRejected(i)
       THEN /\ opState' = [opState EXCEPT ![i] = "skipped"]
            /\ opResult' = [opResult EXCEPT ![i] = opResult[i - 1]]
            /\ UNCHANGED <<tokens, lastRequestTime, opStart, opWake>>
       ELSE /\ WaitForSlot(i)
            /\ UNCHANGED opResult
  /\ UNCHANGED <<envVars, sy, cu, rlOptions, now, nextRefill>>

\* delay(refillInterval) fired: the while loop tests tokens again.
WakeToken(i) ==
  /\ opState[i] = "waitToken"
  /\ now >= opWake[i]
  /\ WaitForSlot(i)
  /\ UNCHANGED <<envVars, sy, cu, rlOptions, now, nextRefill, opResult>>

\* delay(minTime - elapsed) fired: waitForSlot returns.
WakeSpacing(i) ==
  /\ opState[i] = "waitSpacing"
  /\ now >= opWake[i]
  /\ StartOp(i)
  /\ UNCHANGED <<envVars, sy, cu, rlOptions, now, nextRefill, opResult>>

\* fn() settles, after any time, fulfilled or rejected.
Settle(i, ok) ==
  /\ opState[i] = "running"
  /\ opState' = [opState EXCEPT ![i] = IF ok THEN "ok" ELSE "err"]
  /\ opResult' = [opResult EXCEPT ![i] = IF ok THEN Fulfilled(i) ELSE Rejected(i)]
  /\ UNCHANGED <<envVars, sy, cu, rlOptions, tokens, lastRequestTime, now, nextRefill,
                 opWake, opStart>>

\* The setInterval timer fires (never early) and is re-armed.
Refill ==
  /\ now >= nextRefill
  /\ tokens' = RefillTokens(tokens, maxTokens)
  /\ nextRefill' = now + refillInterval
  /\ UNCHANGED <<envVars, sy, cu, rlOptions, lastRequestTime, now, opState, opWake, opStart,
                 opResult>>

\* A timer that is due fires before the clock moves on.
TimerDue ==
  \/ now >= nextRefill
  \/ \E i \in Ops : opState[i] \in {"waitToken", "waitSpacing"} /\ now >= opWake[i]

\* Time passes.
Tick ==
  /\ now < Epoch + MaxTime
  /\ ~TimerDue
  /\ now' = now + 1
  /\ UNCHANGED <<envVars, sy, cu, rlOptions, tokens, lastRequestTime, nextRefill, opState,
                 opWake, opStart, opResult>>

\* Time passes beyond the modelled horizon. The limiter only ever compares
\* differences of times (now - lastRequestTime against minTime, a timer's
\* due time against now), so one more tick is the same as every recorded
\* time moving one tick into the past. A time at or before Epoch is already
\* MaxTime >= minTime ticks old and stays where it is.
Older(t) == IF t > Epoch THEN t - 1 ELSE t

Rebase ==
  /\ now = Epoch + MaxTime
  /\ ~TimerDue
  /\ nextRefill' = Older(nextRefill)
  /\ lastRequestTime' = Older(lastRequestTime)
  /\ opWake' = [i \in Ops |-> Older(opWake[i])]
  /\ opStart' = [i \in Ops |-> Older(opStart[i])]
  /\ UNCHANGED <<envVars, sy, cu, rlOptions, tokens, now, opState, opResult>>


(***************************************************************************)
(* REMOTE SERVICE AND LOCAL DATA                                            *)
(***************************************************************************)
Colls == {"categories", "cities", "studios"}

\* The site's cmsLocaleIds in site order; getLocales puts the primary first.
NumLocales == 2
Locales == 1..NumLocales
PrimaryLocale == 1
AllLocaleIds == [l \in Locales |-> l]

\* The per-request item limit (const batchSize = 100 in the code), scaled to
\* the model's sizes. The loops read it from the variable limit, which every
\* specification sets to batchSize at the start; the specification of the
\* batch operators also starts with batchSize + 1, a limit the number of
\* locales does not divide (as 100 is not divided by 3 locales).
batchSize == 2

Min(a, b) == IF a < b THEN a ELSE b

\* A null reference, and field data no run of the engine has written.
NoRef == 0
OldName == [of |-> "", tag |-> 0]

\* A variant none of whose fields has been written.
BlankVariant == [ext |-> "", name |-> OldName, slug |-> "", city |-> NoRef, cats |-> <<>>]

\* An item as the remote service stores it: a remote id and one variant of
\* the field data per locale it exists in.
LocaleSeq(it) == SelectSeq(AllLocaleIds, LAMBDA l : l \in DOMAIN it.v)

\* listItems with every locale id: one row per locale variant, item by item.
ItemRows(it) ==
  LET ls == LocaleSeq(it) IN
  [k \in 1..Len(ls) |-> [id |-> it.id, cmsLocaleId |-> ls[k], fieldData |-> it.v[ls[k]]]]

RECURSIVE ListItems(_)
ListItems(items) ==
  IF items = <<>> THEN <<>> ELSE ItemRows(Head(items)) \o ListItems(Tail(items))

(***************************************************************************)
(* REMOTE STATE READER (utils/webflow.ts)                                   *)
(***************************************************************************)
\* The loop of fetchAllItems and of fetchAndMapItemsByIdentifier:
\* let offset = 0; allItems / allRows = []; and the requests made so far.
Fetchers == {"fetchAllItems", "fetchAndMapItemsByIdentifier"}
IdlePager == [pc |-> "idle", fn |-> "none", offset |-> 0, allRows |-> <<>>,
              pages |-> 0, stable |-> TRUE]

\* The rows of a response the loop pushes: fetchAllItems pushes every row,
\* fetchAndMapItemsByIdentifier those with an id and a cmsLocaleId.
Pushed(fn, items) ==
  IF fn = "fetchAndMapItemsByIdentifier"
    THEN SelectSeq(items, LAMBDA row : row.id # NoRef /\ row.cmsLocaleId # NoRef)
    ELSE items

\* if (offset >= total || items.length === 0) break;
PageDone_TotalOnly(offset, total, n) == offset >= total
PageDone(offset, total, n) == offset >= total \/ n = 0

\* fetchAllItems: when several locales are requested keep the first row of
\* each remote id.
RECURSIVE Dedup(_, _)
Dedup(rows, seen) ==
  IF rows = <<>> THEN <<>>
  ELSE IF Head(rows).id \in seen THEN Dedup(Tail(rows), seen)
  ELSE <<Head(rows)>> \o Dedup(Tail(rows), seen \cup {Head(rows).id})

FetchAllItems_NoDedup(items) == ListItems(items)
FetchAllItems(items) ==
  IF NumLocales > 1 THEN Dedup(ListItems(items), {}) ELSE ListItems(items)

\* Step 2 of fetchAndMapItemsByIdentifier: group the rows by remote id, in
\* the order of each id's first row.
RECURSIVE GroupRows(_, _)
GroupRows(rows, acc) ==
  IF rows = <<>> THEN acc
  ELSE LET r == Head(rows)
           hit == {k \in 1..Len(acc) : acc[k].id = r.id}
       IN IF hit = {}
            THEN GroupRows(Tail(rows), Append(acc, [id |-> r.id, variants |-> <<r>>]))
            ELSE LET k == CHOOSE k \in hit : TRUE
                 IN GroupRows(Tail(rows),
                      [acc EXCEPT ![k].variants = Append(acc[k].variants, r)])

\* new Set(variants.map(identifier)), without the filter.
RECURSIVE IdentifierValues_NoFilter(_, _)
IdentifierValues_NoFilter(variants, acc) ==
  IF variants = <<>> THEN acc
  ELSE LET e == Head(variants).fieldData.ext
       IN IF \E k \in 1..Len(acc) : acc[k] = e
            THEN IdentifierValues_NoFilter(Tail(variants), acc)
            ELSE IdentifierValues_NoFilter(Tail(variants), Append(acc, e))

\* new Set(variants.map(identifier).filter(Boolean)), in insertion order.
RECURSIVE IdentifierValues(_, _)
IdentifierValues(variants, acc) ==
  IF variants = <<>> THEN acc
  ELSE LET e == Head(variants).fieldData.ext
       IN IF e = "" \/ \E k \in 1..Len(acc) : acc[k] = e
            THEN IdentifierValues(Tail(variants), acc)
            ELSE IdentifierValues(Tail(variants), Append(acc, e))

Corrupted_Never(values) == FALSE
Corrupted_Overeager(values) == Len(values) >= 1
Corrupted(values) == Len(values) > 1

\* Steps 3 and 4: file each group under its first identifier value. The
\* result is the identity map as a sequence of entries in insertion order.
RECURSIVE IdentityMap(_, _)
IdentityMap(groups, acc) ==
  IF groups = <<>> THEN acc
  ELSE LET g == Head(groups)
           values == IdentifierValues(g.variants, <<>>)
       IN IF values = <<>> THEN IdentityMap(Tail(groups), acc)
          ELSE LET key == values[1]
                   group == [id |-> g.id,
                             locales |-> {g.variants[k].cmsLocaleId : k \in 1..Len(g.variants)},
                             corrupted |-> Corrupted(values)]
                   hit == {k \in 1..Len(acc) : acc[k].ext = key}
               IN IF hit = {}
                    THEN IdentityMap(Tail(groups),
                           Append(acc, [ext |-> key, groups |-> <<group>>]))
                    ELSE LET k == CHOOSE k \in hit : TRUE
                         IN IdentityMap(Tail(groups),
                              [acc EXCEPT ![k].groups = Append(acc[k].groups, group)])

FetchAndMapItemsByIdentifier(items) ==
  IdentityMap(GroupRows(ListItems(items), <<>>), <<>>)


(***************************************************************************)
(* CATEGORIZER (utils/sync.ts, step 1)                                      *)
(***************************************************************************)
EmptyMap == [x \in {} |-> 0]
Lookup(m, k) == IF k \in DOMAIN m THEN m[k] ELSE NoRef

SeqMap(f(_), s) == [k \in 1..Len(s) |-> f(s[k])]
SeqToSet(s) == {s[k] : k \in 1..Len(s)}

\* A duplicate entry purges every group, a corrupted single group itself.
PurgeIds_KeepFirst(entry) ==
  IF Len(entry.groups) > 1 THEN SeqMap(LAMBDA g : g.id, Tail(entry.groups))
  ELSE IF entry.groups[1].corrupted THEN <<entry.groups[1].id>>
  ELSE <<>>
PurgeIds_DuplicatesOnly(entry) ==
  IF Len(entry.groups) > 1 THEN SeqMap(LAMBDA g : g.id, entry.groups) ELSE <<>>
PurgeIds(entry) ==
  IF Len(entry.groups) > 1 THEN SeqMap(LAMBDA g : g.id, entry.groups)
  ELSE IF entry.groups[1].corrupted THEN <<entry.groups[1].id>>
  ELSE <<>>

RECURSIVE CorruptedIds(_)
CorruptedIds(webflowMap) ==
  IF webflowMap = <<>> THEN <<>>
  ELSE PurgeIds(Head(webflowMap)) \o CorruptedIds(Tail(webflowMap))

\* existingByIdentifier: the identifiers with one clean group.
ExistingByIdentifier_All(webflowMap) ==
  SeqMap(LAMBDA e : [ext |-> e.ext, webflowId |-> e.groups[1].id,
                     localesPresent |-> e.groups[1].locales],
         webflowMap)
ExistingByIdentifier(webflowMap) ==
  SeqMap(LAMBDA e : [ext |-> e.ext, webflowId |-> e.groups[1].id,
                     localesPresent |-> e.groups[1].locales],
         SelectSeq(webflowMap,
                   LAMBDA e : Len(e.groups) = 1 /\ ~e.groups[1].corrupted))

Has(existing, id) == \E k \in 1..Len(existing) : existing[k].ext = id
Get(existing, id) == existing[CHOOSE k \in 1..Len(existing) : existing[k].ext = id]

HasAllLocales_Any(present) == present # {}
HasAllLocales(present) == \A l \in Locales : l \in present

OrphanIds_None(existing, items) == <<>>
OrphanIds_All(existing, items) == SeqMap(LAMBDA e : e.webflowId, existing)
OrphanIds(existing, items) ==
  SeqMap(LAMBDA e : e.webflowId,
         SelectSeq(existing, LAMBDA e : e.ext \notin {items[k].id : k \in 1..Len(items)}))

Categorize(items, webflowMap) ==
  LET existing == ExistingByIdentifier(webflowMap)
      toCreate == SelectSeq(items, LAMBDA it : ~Has(existing, it.id))
      toUpdate == SelectSeq(items, LAMBDA it :
                    Has(existing, it.id)
                    /\ HasAllLocales(Get(existing, it.id).localesPresent))
      toRecreate == SeqMap(LAMBDA it : [item |-> it, webflowId |-> Get(existing, it.id).webflowId],
                      SelectSeq(items, LAMBDA it :
                        Has(existing, it.id)
                        /\ ~HasAllLocales(Get(existing, it.id).localesPresent)))
      orphanIds == OrphanIds(existing, items)
      corruptedIds == CorruptedIds(webflowMap)
  IN [toCreate |-> toCreate, toRecreate |-> toRecreate, toUpdate |-> toUpdate,
      orphanIds |-> orphanIds, corruptedIds |-> corruptedIds,
      allIdsToDelete |-> orphanIds \o corruptedIds
                           \o SeqMap(LAMBDA x : x.webflowId, toRecreate),
      allToCreate |-> toCreate \o SeqMap(LAMBDA x : x.item, toRecreate)]

(***************************************************************************)
(* WHAT THE REMOTE SERVICE DOES WITH A REQUEST                              *)
(***************************************************************************)
Chunk(s, off) == SubSeq(s, off + 1, Min(off + limit, Len(s)))

\* The cmsLocaleIds of every entry of a delete payload: batchDelete is handed
\* allLocaleIds, cleanupDeletedItems maps the locales getLocales returns.
DeleteLocaleIds_PrimaryOnly == <<PrimaryLocale>>
DeleteLocaleIds == AllLocaleIds

\* deleteItems: the named items lose their variants in the named locales; an
\* item with no variant left is gone.
Restrict(f, dom) == [x \in dom |-> f[x]]

RemoteDelete(items, ids) ==
  SelectSeq(
    SeqMap(LAMBDA it :
             IF it.id \in ids
               THEN [it EXCEPT !.v = Restrict(@, DOMAIN @ \ SeqToSet(DeleteLocaleIds))]
               ELSE it,
           items),
    LAMBDA it : DOMAIN it.v # {})

\* createItems: one new item per field data, with one variant per locale id
\* of the request, all holding the submitted (primary locale) field data.
RemoteCreate(items, fieldDatas, cmsLocaleIds, firstId) ==
  items \o [k \in 1..Len(fieldDatas) |->
              [id |-> firstId + k - 1,
               v |-> [l \in SeqToSet(cmsLocaleIds) |-> fieldDatas[k]]]]

\* One update entry merged into the variant it names; fields the entry
\* leaves out keep their value.
Merge(variant, fd) ==
  [f \in DOMAIN variant |-> IF f \in DOMAIN fd THEN fd[f] ELSE variant[f]]

ApplyEntry(it, e) ==
  IF it.id = e.id /\ e.cmsLocaleId \in DOMAIN it.v
    THEN [it EXCEPT !.v[e.cmsLocaleId] = Merge(@, e.fieldData)]
    ELSE it

RECURSIVE RemoteUpdate(_, _)
RemoteUpdate(items, entries) ==
  IF entries = <<>> THEN items
  ELSE RemoteUpdate(SeqMap(LAMBDA it : ApplyEntry(it, Head(entries)), items),
                    Tail(entries))

\* The remote service rejects an update that names a variant it does not hold.
EntryExists(items, e) ==
  \E k \in 1..Len(items) : items[k].id = e.id /\ e.cmsLocaleId \in DOMAIN items[k].v

NoRequest == [coll |-> "none", kind |-> "none", ids |-> {}, ok |-> TRUE]
Request(c, kind, ids, ok) == [coll |-> c, kind |-> kind, ids |-> ids, ok |-> ok]


(***************************************************************************)
(* syncCollection (utils/sync.ts)                                           *)
(***************************************************************************)
MaxFails == 1     \* remote requests that fail in a behaviour
MaxRuns == 2      \* consecutive syncCollection runs on one collection

\* getIdMap and step 4: identifier of each fetched item -> its remote id;
\* a later item overwrites an earlier one.
RECURSIVE IdMapOf(_, _)
IdMapOf(rows, m) ==
  IF rows = <<>> THEN m
  ELSE LET r == Head(rows)
       IN IF r.fieldData.ext # ""
            THEN IdMapOf(Tail(rows), (r.fieldData.ext :> r.id) @@ m)
            ELSE IdMapOf(Tail(rows), m)

\* buildFieldData(item, tag) of syncCitiesToWebflow (the categories' is alike)
\* and of syncStudiosToWebflow, which resolves the references through the id
\* maps; an unresolved city is undefined and so absent from the payload.
ResolvedCats(r, item) ==
  SelectSeq(SeqMap(LAMBDA k : Lookup(r.categoryIdMap, k), item.cats),
            LAMBDA id : id # NoRef)

BuildFieldData(c, r, item, tag) ==
  LET base == [ext |-> item.id, name |-> [of |-> item.id, tag |-> tag], slug |-> item.id]
  IN IF c # "studios" THEN base
     ELSE IF Lookup(r.cityIdMap, item.city) = NoRef
       THEN base @@ [cats |-> ResolvedCats(r, item)]
       ELSE base @@ [cats |-> ResolvedCats(r, item), city |-> Lookup(r.cityIdMap, item.city)]

\* const { slug, ...fieldData } = buildFieldData(item, locale.tag)
StripSlug_Keep(fd) == fd
StripSlug(fd) == [f \in DOMAIN fd \ {"slug"} |-> fd[f]]

RECURSIVE Flatten(_)
Flatten(ss) == IF ss = <<>> THEN <<>> ELSE Head(ss) \o Flatten(Tail(ss))

\* Step 5's payload: for every item the re-read resolves, one entry per locale.
UpdateEntries(c, r, items, idByIdentifier) ==
  Flatten(SeqMap(LAMBDA it :
    IF Lookup(idByIdentifier, it.id) = NoRef THEN <<>>
    ELSE SeqMap(LAMBDA l : [id |-> Lookup(idByIdentifier, it.id), cmsLocaleId |-> l,
                            fieldData |-> StripSlug(BuildFieldData(c, r, it, l))],
                AllLocaleIds),
    items))

AllWebflowIds_NoFilter(items, idByIdentifier) ==
  SeqMap(LAMBDA it : Lookup(idByIdentifier, it.id), items)
AllWebflowIds(items, idByIdentifier) ==
  SelectSeq(SeqMap(LAMBDA it : Lookup(idByIdentifier, it.id), items),
            LAMBDA id : id # NoRef)

\* The payload of the deleteItemsLive request that succeeded in the try
\* block now running (const payload), or none.
NoPayload == [ids |-> {}, cmsLocaleIds |-> <<>>]
DeletePayload(ids) == [ids |-> ids, cmsLocaleIds |-> DeleteLocaleIds]

IdleSync ==
  [pc |-> "idle", run |-> 0, clean |-> TRUE, prevClean |-> TRUE,
   seen |-> <<>>, webflowMap |-> <<>>, toCreate |-> <<>>, toRecreate |-> <<>>, toUpdate |-> <<>>,
   orphanIds |-> <<>>, corruptedIds |-> <<>>, allIdsToDelete |-> <<>>,
   allToCreate |-> <<>>, off |-> 0, n |-> 0,
   idByIdentifier |-> EmptyMap, updateEntries |-> <<>>, allWebflowIds |-> <<>>,
   created |-> 0, updated |-> 0, deleted |-> 0, published |-> 0, errors |-> 0,
   cityIdMap |-> EmptyMap, categoryIdMap |-> EmptyMap,
   abort |-> "none", totalDeleted |-> 0, updatedEntries |-> 0, log |-> <<>>,
   unpublished |-> NoPayload]

\* addError(step, message): one more entry in result.errors.
AddError_Silent(r) == r
AddError(r) == [r EXCEPT !.errors = @ + 1]

\* The try block of a batch operator has run for the chunk at r.off, with
\* result res; or the re-read of step 4 has returned.
Logged(r, op, res) == [r EXCEPT !.log = Append(@, [op |-> op, off |-> r.off, res |-> res])]

\* A remote request either succeeds or not (it fails, or answers with what
\* stops the caller); the requests that do not succeed are bounded.
Try(ok) ==
  /\ ok \/ fails < failLimit
  /\ fails' = IF ok THEN fails ELSE fails + 1
  /\ UNCHANGED <<rlVars, failLimit, limit, pg>>

\* ---- stage transitions: each batch operator returns at once on an empty list

FinishPublish(r) == [r EXCEPT !.pc = "done", !.published = r.n]
EnterPublish(r) ==
  IF r.allWebflowIds = <<>> THEN [r EXCEPT !.pc = "done", !.published = 0]
  ELSE [r EXCEPT !.pc = "publish", !.off = 0, !.n = 0]

\* result.updated = Math.floor(updatedEntries / locales.length)
FinishUpdate(r) == EnterPublish([r EXCEPT !.updatedEntries = r.n, !.updated = r.n \div NumLocales])
EnterUpdate(r) ==
  IF r.updateEntries = <<>> THEN EnterPublish([r EXCEPT !.updated = 0])
  ELSE [r EXCEPT !.pc = "update", !.off = 0, !.n = 0]

FinishCreate_NoReread(r) == EnterUpdate([r EXCEPT !.created = r.n])
FinishCreate(r) == [r EXCEPT !.pc = "refetch", !.created = r.n]
EnterCreate(r) ==
  IF r.allToCreate = <<>> THEN [r EXCEPT !.pc = "refetch", !.created = 0]
  ELSE [r EXCEPT !.pc = "create", !.off = 0, !.n = 0]

\* result.deleted = Math.min(totalDeleted, orphanIds.length + corruptedIds.length)
FinishDelete(r) ==
  EnterCreate([r EXCEPT !.totalDeleted = r.n,
                        !.deleted = Min(r.n, Len(r.orphanIds) + Len(r.corruptedIds))])
EnterDelete(r) ==
  IF r.allIdsToDelete = <<>> THEN EnterCreate([r EXCEPT !.deleted = 0])
  ELSE [r EXCEPT !.pc = "deleteLive", !.off = 0, !.n = 0]

\* The for loop of a batch operator moves to its next chunk, or ends.
NextChunk(r, list, pc, Finish(_)) ==
  IF r.off + limit < Len(list)
    THEN [r EXCEPT !.pc = pc, !.off = r.off + limit]
    ELSE Finish(r)

\* ---- the steps of one call

\* syncCollection is called: result = zeros, errors = [].
StartedSync(r) ==
  [IdleSync EXCEPT !.pc = "setup", !.run = r.run + 1,
                   !.prevClean = r.prevClean /\ r.clean,
                   !.cityIdMap = r.cityIdMap,
                   !.categoryIdMap = r.categoryIdMap]

SyncStart(c) ==
  /\ sy[c].pc \in {"idle", "done", "thrown"}
  /\ sy[c].run < MaxRuns
  /\ sy' = [sy EXCEPT ![c] = StartedSync(@)]
  /\ UNCHANGED <<rlVars, remote, local, nextId, fails, failLimit, limit, pg, lastReq, cu>>

\* Setup and pre-flight: collections.get, validateCollectionSchema,
\* getLocales. What they can come to:
\*   noCollection      collections.get throws (caught)
\*   schemaNoCollection, missingFields, typeMismatches
\*                     what validateCollectionSchema reports
\*   schemaThrow       a request of validateCollectionSchema throws
\*   noPrimaryLocale   the site has no primary locale: getLocales throws
\*   sitesGetThrow     sites.get throws inside getLocales
SetupOutcomes == {"ok", "noCollection", "schemaNoCollection", "missingFields",
                  "typeMismatches", "schemaThrow", "noPrimaryLocale", "sitesGetThrow"}

\* The outcomes in which a remote request has failed.
SetupFailures == {"noCollection", "schemaThrow", "sitesGetThrow"}

\* The outcomes syncCollection answers with a result holding one error.
SetupReturns_Late(outcome) == FALSE
SetupReturns(outcome) ==
  outcome \in {"noCollection", "schemaNoCollection", "missingFields", "typeMismatches"}

\* The outcomes that leave syncCollection as an exception.
SetupThrows(outcome) == outcome \in {"schemaThrow", "noPrimaryLocale", "sitesGetThrow"}

SyncSetup(c, outcome) ==
  /\ sy[c].pc = "setup"
  /\ Try(outcome = "ok")
  /\ lastReq' = Request(c, "get", {}, outcome \notin SetupFailures)
  /\ sy' = [sy EXCEPT ![c] =
       IF SetupReturns(outcome)
         THEN AddError([@ EXCEPT !.pc = "done", !.clean = FALSE, !.abort = outcome])
       ELSE IF SetupThrows(outcome)
         THEN [@ EXCEPT !.pc = "thrown", !.clean = FALSE, !.abort = outcome]
       ELSE [@ EXCEPT !.pc = "discover", !.abort = outcome]]
  /\ UNCHANGED <<remote, local, nextId, cu>>

\* Step 1: fetchAndMapItemsByIdentifier, then the categorization. A failing
\* listing is not caught.
SyncDiscover(c, ok) ==
  /\ sy[c].pc = "discover"
  /\ Try(ok)
  /\ lastReq' = Request(c, "list", {}, ok)
  /\ sy' = [sy EXCEPT ![c] =
       IF ~ok THEN [@ EXCEPT !.pc = "thrown", !.clean = FALSE, !.abort = "discover"]
       ELSE LET wm == FetchAndMapItemsByIdentifier(remote[c])
                p == Categorize(local[c], wm)
            IN EnterDelete([@ EXCEPT !.seen = remote[c], !.webflowMap = wm,
                 !.toCreate = p.toCreate, !.toRecreate = p.toRecreate,
                 !.toUpdate = p.toUpdate, !.orphanIds = p.orphanIds,
                 !.corruptedIds = p.corruptedIds,
                 !.allIdsToDelete = p.allIdsToDelete,
                 !.allToCreate = p.allToCreate])]
  /\ UNCHANGED <<remote, local, nextId, cu>>

\* batchDelete, first request of a chunk: deleteItemsLive (unpublish). When
\* it fails the catch block records the error and the loop moves on.
SyncDeleteLive(c, ok) ==
  /\ sy[c].pc = "deleteLive"
  /\ Try(ok)
  /\ lastReq' = Request(c, "deleteLive", SeqToSet(Chunk(sy[c].allIdsToDelete, sy[c].off)), ok)
  /\ sy' = [sy EXCEPT ![c] =
       IF ok THEN [@ EXCEPT !.pc = "deletePerm",
                            !.unpublished = DeletePayload(SeqToSet(Chunk(sy[c].allIdsToDelete, sy[c].off)))]
       ELSE NextChunk(AddError(Logged([@ EXCEPT !.clean = FALSE], "delete", "error")),
                      @.allIdsToDelete, "deleteLive", FinishDelete)]
  /\ UNCHANGED <<remote, local, nextId, cu>>

\* batchDelete, second request of a chunk: deleteItems.
SyncDeletePerm(c, ok) ==
  LET chunk == Chunk(sy[c].allIdsToDelete, sy[c].off) IN
  /\ sy[c].pc = "deletePerm"
  /\ Try(ok)
  /\ lastReq' = Request(c, "delete", SeqToSet(chunk), ok)
  /\ remote' = IF ok THEN [remote EXCEPT ![c] = RemoteDelete(@, SeqToSet(chunk))]
               ELSE remote
  /\ sy' = [sy EXCEPT ![c] =
       LET r == [@ EXCEPT !.unpublished = NoPayload] IN
       NextChunk(IF ok THEN Logged([r EXCEPT !.n = @ + Len(chunk)], "delete", "ok")
                 ELSE AddError(Logged([r EXCEPT !.clean = FALSE], "delete", "error")),
                 r.allIdsToDelete, "deleteLive", FinishDelete)]
  /\ UNCHANGED <<local, nextId, cu>>

\* The cmsLocaleIds syncCollection hands to batchCreate: allLocaleIds.
CreateLocaleIds_PrimaryOnly == <<PrimaryLocale>>
CreateLocaleIds == AllLocaleIds

\* batchCreate: one createItems request per chunk, with the primary locale's
\* field data and every locale id.
SyncCreate(c, ok) ==
  LET chunk == Chunk(sy[c].allToCreate, sy[c].off)
      fds == SeqMap(LAMBDA it : Merge(BlankVariant,
                                      BuildFieldData(c, sy[c], it, PrimaryLocale)),
                    chunk)
  IN
  /\ sy[c].pc = "create"
  /\ Try(ok)
  /\ lastReq' = Request(c, "create", {}, ok)
  /\ remote' = IF ok THEN [remote EXCEPT ![c] = RemoteCreate(@, fds, CreateLocaleIds, nextId)]
               ELSE remote
  /\ nextId' = IF ok THEN nextId + Len(chunk) ELSE nextId
  /\ sy' = [sy EXCEPT ![c] =
       NextChunk(IF ok THEN Logged([@ EXCEPT !.n = @ + Len(chunk)], "create", "ok")
                 ELSE AddError(Logged([@ EXCEPT !.clean = FALSE], "create", "error")),
                 @.allToCreate, "create", FinishCreate)]
  /\ UNCHANGED <<local, cu>>

\* Step 4: fetchAllItems again, then the payloads of steps 5 and 6. A failing
\* listing is not caught.
SyncRefetch(c, ok) ==
  /\ sy[c].pc = "refetch"
  /\ Try(ok)
  /\ lastReq' = Request(c, "list", {}, ok)
  /\ sy' = [sy EXCEPT ![c] =
       IF ~ok THEN [@ EXCEPT !.pc = "thrown", !.clean = FALSE, !.abort = "refetch"]
       ELSE LET m == IdMapOf(FetchAllItems(remote[c]), EmptyMap)
            IN EnterUpdate([Logged(@, "reread", "ok") EXCEPT !.idByIdentifier = m,
                 !.updateEntries = UpdateEntries(c, sy[c], local[c], m),
                 !.allWebflowIds = AllWebflowIds(local[c], m)])]
  /\ UNCHANGED <<remote, local, nextId, cu>>

\* batchUpdate: one updateItems (staged) request per chunk of entries. The
\* remote service rejects a request that names a variant it does not hold.
SyncUpdate(c, ok) ==
  LET chunk == Chunk(sy[c].updateEntries, sy[c].off)
      accepted == ok /\ \A k \in 1..Len(chunk) : EntryExists(remote[c], chunk[k])
  IN
  /\ sy[c].pc = "update"
  /\ Try(ok)
  /\ lastReq' = Request(c, "update", {chunk[k].id : k \in 1..Len(chunk)}, accepted)
  /\ remote' = IF accepted THEN [remote EXCEPT ![c] = RemoteUpdate(@, chunk)]
               ELSE remote
  /\ sy' = [sy EXCEPT ![c] =
       NextChunk(IF accepted THEN Logged([@ EXCEPT !.n = @ + Len(chunk)], "update", "ok")
                 ELSE AddError(Logged([@ EXCEPT !.clean = FALSE], "update", "error")),
                 @.updateEntries, "update", FinishUpdate)]
  /\ UNCHANGED <<local, nextId, cu>>

\* isSiteNotPublishedError: status 409 with "not published" in the message.
IsSiteNotPublishedError_Never(outcome) == FALSE
IsSiteNotPublishedError(outcome) == outcome = "conflict"

PublishOutcomes == {"ok", "conflict", "error"}

\* batchPublish: one publishItem request per chunk. The site-not-published
\* conflict returns the count so far, without an error entry.
SyncPublish(c, outcome) ==
  LET chunk == Chunk(sy[c].allWebflowIds, sy[c].off) IN
  /\ sy[c].pc = "publish"
  /\ Try(outcome = "ok")
  /\ lastReq' = Request(c, "publish", SeqToSet(chunk), outcome = "ok")
  /\ sy' = [sy EXCEPT ![c] =
       IF outcome = "ok"
         THEN NextChunk(Logged([@ EXCEPT !.n = @ + Len(chunk)], "publish", outcome),
                        @.allWebflowIds, "publish", FinishPublish)
       ELSE IF IsSiteNotPublishedError(outcome)
         THEN FinishPublish(Logged([@ EXCEPT !.clean = FALSE], "publish", outcome))
       ELSE NextChunk(AddError(Logged([@ EXCEPT !.clean = FALSE], "publish", outcome)),
                      @.allWebflowIds, "publish", FinishPublish)]
  /\ UNCHANGED <<remote, local, nextId, cu>>

SyncStep(c) ==
  \/ \E o \in SetupOutcomes : SyncSetup(c, o)
  \/ \E ok \in BOOLEAN : SyncDiscover(c, ok)
  \/ \E ok \in BOOLEAN : SyncDeleteLive(c, ok)
  \/ \E ok \in BOOLEAN : SyncDeletePerm(c, ok)
  \/ \E ok \in BOOLEAN : SyncCreate(c, ok)
  \/ \E ok \in BOOLEAN : SyncRefetch(c, ok)
  \/ \E ok \in BOOLEAN : SyncUpdate(c, ok)
  \/ \E o \in PublishOutcomes : SyncPublish(c, o)

(***************************************************************************)
(* THE REFERENCE CLEANER AND THE CLEANUP PRIMITIVES (utils/cleanup.ts)      *)
(***************************************************************************)
\* getOrphanedItems, and the filter of cleanupDeletedItems: of the items
\* fetchAllItems returns, those whose identifier is set and is not a source id.
OrphanedItems_NoIdentifierTest(items, sourceIds) ==
  SeqMap(LAMBDA r : [sourceId |-> r.fieldData.ext, webflowItemId |-> r.id],
         SelectSeq(FetchAllItems(items), LAMBDA r : r.fieldData.ext \notin sourceIds))
OrphanedItems(items, sourceIds) ==
  SeqMap(LAMBDA r : [sourceId |-> r.fieldData.ext, webflowItemId |-> r.id],
         SelectSeq(FetchAllItems(items),
                   LAMBDA r : r.fieldData.ext # "" /\ r.fieldData.ext \notin sourceIds))

WebflowItemIds(orphans) == SeqMap(LAMBDA o : o.webflowItemId, orphans)

\* The scan of removeReferencesToItems over one fetched item: the multi
\* reference is filtered, the single reference is nulled.
StalePatch_AllFields(row, idsToRemove) ==
  [cats |-> SelectSeq(row.fieldData.cats, LAMBDA id : id \notin idsToRemove),
   city |-> IF row.fieldData.city \in idsToRemove THEN NoRef ELSE row.fieldData.city]
StalePatch(row, idsToRemove) ==
  LET cats == row.fieldData.cats
      filtered == SelectSeq(cats, LAMBDA id : id \notin idsToRemove)
      catsFd == IF Len(filtered) # Len(cats) THEN [cats |-> filtered] ELSE EmptyMap
      cityFd == IF row.fieldData.city # NoRef /\ row.fieldData.city \in idsToRemove
                  THEN [city |-> NoRef] ELSE EmptyMap
  IN catsFd @@ cityFd

\* itemsToUpdate: the fetched items whose scan found a stale reference.
ItemsToUpdate(items, idsToRemove) ==
  SeqMap(LAMBDA r : [id |-> r.id, fieldData |-> StalePatch(r, idsToRemove)],
         SelectSeq(FetchAllItems(items),
                   LAMBDA r : DOMAIN StalePatch(r, idsToRemove) # {}))

\* Math.max(1, Math.floor(100 / locales.length)), with the scaled limit.
RefBatchSize == IF limit \div NumLocales > 1 THEN limit \div NumLocales ELSE 1

\* The payload of one updateItemsLive request: each item of the batch in
\* every locale.
RefPayload(batch) ==
  Flatten(SeqMap(LAMBDA it :
            SeqMap(LAMBDA l : [id |-> it.id, cmsLocaleId |-> l, fieldData |-> it.fieldData],
                   AllLocaleIds),
          batch))

(***************************************************************************)
(* syncAll (sync/index.ts) AND cleanupAll (sync/cleanup.ts)                 *)
(***************************************************************************)
IdleCleanup ==
  [pc |-> "idle", mode |-> "none", stage |-> "none", clean |-> TRUE,
   itemsToDelete |-> <<>>, off |-> 0,
   cityIdsToDelete |-> <<>>, categoryIdsToDelete |-> <<>>,
   itemsToUpdate |-> <<>>, refUpdated |-> 0, refFailed |-> {}, log |-> <<>>,
   unpublished |-> NoPayload,
   deleted |-> [c \in Colls |-> 0],
   deletedWebflowIds |-> [c \in Colls |-> <<>>],
   deletedIdentifiers |-> [c \in Colls |-> <<>>],
   errors |-> [c \in Colls |-> 0]]

SourceIds(c) == {local[c][k].id : k \in 1..Len(local[c])}

\* A request of cleanupAll has settled: the step of cleanupAll it belongs to,
\* its kind and the remote ids it names.
Stepped(r, step, kind, ids) ==
  [r EXCEPT !.log = Append(@, [step |-> step, kind |-> kind, ids |-> ids])]

\* What cleanupAll does after the cleanupDeletedItems call of a stage.
AfterCleanup_NoStrip(r) ==
  CASE r.stage = "studios" -> [r EXCEPT !.pc = "cleanupList", !.stage = "cities"]
    [] r.stage = "cities" -> [r EXCEPT !.pc = "cleanupList", !.stage = "categories"]
    [] OTHER -> [r EXCEPT !.pc = "done"]
AfterCleanup(r) ==
  CASE r.stage = "studios" -> [r EXCEPT !.pc = "orphans"]
    [] r.stage = "cities" -> [r EXCEPT !.pc = "cleanupList", !.stage = "categories"]
    [] OTHER -> [r EXCEPT !.pc = "done"]

\* Step 4 of cleanupAll is reached.
EnterCityCleanup(r) == [r EXCEPT !.pc = "cleanupList", !.stage = "cities"]

\* The bookkeeping of cleanupDeletedItems after the two requests of a batch:
\* for every item of the batch the count, its remote id and its identifier.
TrackDeleted_NoIdentifiers(r, c, batch) ==
  [r EXCEPT !.deleted[c] = @ + Len(batch),
            !.deletedWebflowIds[c] = @ \o WebflowItemIds(batch)]
TrackDeleted(r, c, batch) ==
  [r EXCEPT !.deleted[c] = @ + Len(batch),
            !.deletedWebflowIds[c] = @ \o WebflowItemIds(batch),
            !.deletedIdentifiers[c] = @ \o SeqMap(LAMBDA o : o.sourceId, batch)]

NextDeleteChunk(r) ==
  IF r.off + limit < Len(r.itemsToDelete)
    THEN [r EXCEPT !.pc = "cleanupLive", !.off = r.off + limit]
    ELSE AfterCleanup(r)

NextRefChunk(r) ==
  IF r.off + RefBatchSize < Len(r.itemsToUpdate)
    THEN [r EXCEPT !.off = r.off + RefBatchSize]
    ELSE EnterCityCleanup(r)

\* await: the promise of the sync of collection c has settled.
RunSettled_Always(c) == TRUE
RunSettled(c) == sy[c].pc \in {"done", "thrown"}

\* syncAll is called: syncCategoriesToWebflow and syncCitiesToWebflow start
\* together.
SyncAllStart ==
  /\ cu.pc = "idle"
  /\ cu' = [cu EXCEPT !.pc = "phase1", !.mode = "syncAll"]
  /\ sy' = [sy EXCEPT !["categories"] = StartedSync(@), !["cities"] = StartedSync(@)]
  /\ UNCHANGED <<rlVars, remote, local, nextId, fails, failLimit, limit, pg, lastReq>>

\* Promise.all has settled; syncStudiosToWebflow reads the two id maps with
\* getIdMap and calls syncCollection. A throw of either ends syncAll.
SyncAllStudios(ok) ==
  /\ cu.pc = "phase1"
  /\ RunSettled("categories")
  /\ RunSettled("cities")
  /\ IF sy["categories"].pc = "thrown" \/ sy["cities"].pc = "thrown"
       THEN /\ ok
            /\ cu' = [cu EXCEPT !.pc = "thrown", !.clean = FALSE]
            /\ UNCHANGED <<rlVars, fails, failLimit, limit, pg, lastReq, sy>>
       ELSE /\ Try(ok)
            /\ lastReq' = Request("cities", "list", {}, ok)
            /\ cu' = IF ok THEN [cu EXCEPT !.pc = "studios"]
                     ELSE [cu EXCEPT !.pc = "thrown", !.clean = FALSE]
            /\ sy' = IF ~ok THEN sy
                     ELSE [sy EXCEPT !["studios"] =
                            [StartedSync(@) EXCEPT
                               !.categoryIdMap = IdMapOf(FetchAllItems(remote["categories"]), EmptyMap),
                               !.cityIdMap = IdMapOf(FetchAllItems(remote["cities"]), EmptyMap)]]
  /\ UNCHANGED <<remote, local, nextId>>

\* syncStudiosToWebflow has returned: syncAll calls cleanupAll with the ids
\* of the source data.
SyncAllCleanup ==
  /\ cu.pc = "studios"
  /\ RunSettled("studios")
  /\ cu' = IF sy["studios"].pc = "thrown"
             THEN [cu EXCEPT !.pc = "thrown", !.clean = FALSE]
             ELSE [cu EXCEPT !.pc = "cleanupList", !.stage = "studios"]
  /\ UNCHANGED <<rlVars, remote, local, nextId, fails, failLimit, limit, pg, lastReq, sy>>

\* cleanupAll is called on its own.
CleanupAllStart ==
  /\ cu.pc = "idle"
  /\ cu' = [cu EXCEPT !.pc = "cleanupList", !.stage = "studios", !.mode = "cleanupAll"]
  /\ UNCHANGED <<rlVars, remote, local, nextId, fails, failLimit, limit, pg, lastReq, sy>>

\* cleanupDeletedItems up to its loop: getLocales, fetchAllItems, the filter.
CleanupList(ok) ==
  /\ cu.pc = "cleanupList"
  /\ Try(ok)
  /\ lastReq' = Request(cu.stage, "list", {}, ok)
  /\ cu' = IF ~ok THEN [cu EXCEPT !.pc = "thrown", !.clean = FALSE]
           ELSE LET itemsToDelete == OrphanedItems(remote[cu.stage], SourceIds(cu.stage))
                    r == Stepped(cu, cu.stage, "list", {})
                IN IF itemsToDelete = <<>> THEN AfterCleanup(r)
                   ELSE [r EXCEPT !.pc = "cleanupLive", !.itemsToDelete = itemsToDelete,
                                  !.off = 0]
  /\ UNCHANGED <<remote, local, nextId, sy>>

\* cleanupDeletedItems, first request of a batch: deleteItemsLive. When it
\* throws the catch block records one error and the loop moves on.
CleanupDeleteLive(ok) ==
  LET ids == SeqToSet(WebflowItemIds(Chunk(cu.itemsToDelete, cu.off))) IN
  /\ cu.pc = "cleanupLive"
  /\ Try(ok)
  /\ lastReq' = Request(cu.stage, "deleteLive", ids, ok)
  /\ cu' = LET r == Stepped(cu, cu.stage, "deleteLive", ids)
           IN IF ok THEN [r EXCEPT !.pc = "cleanupPerm", !.unpublished = DeletePayload(ids)]
              ELSE NextDeleteChunk([r EXCEPT !.errors[cu.stage] = @ + 1, !.clean = FALSE])
  /\ UNCHANGED <<remote, local, nextId, sy>>

\* cleanupDeletedItems, second request of a batch: deleteItems, then the
\* bookkeeping of what was deleted.
CleanupDeletePerm(ok) ==
  LET batch == Chunk(cu.itemsToDelete, cu.off)
      ids == SeqToSet(WebflowItemIds(batch))
  IN
  /\ cu.pc = "cleanupPerm"
  /\ Try(ok)
  /\ lastReq' = Request(cu.stage, "delete", ids, ok)
  /\ remote' = IF ok THEN [remote EXCEPT ![cu.stage] = RemoteDelete(@, ids)]
               ELSE remote
  /\ cu' = LET r == [Stepped(cu, cu.stage, "delete", ids) EXCEPT !.unpublished = NoPayload]
           IN NextDeleteChunk(IF ok THEN TrackDeleted(r, r.stage, batch)
                              ELSE [r EXCEPT !.errors[cu.stage] = @ + 1, !.clean = FALSE])
  /\ UNCHANGED <<local, nextId, sy>>

\* Step 2 of cleanupAll: getOrphanedItems for the cities and the categories.
\* With nothing to delete step 3 is skipped.
CleanupFindOrphans(ok) ==
  /\ cu.pc = "orphans"
  /\ Try(ok)
  /\ lastReq' = Request("cities", "list", {}, ok)
  /\ cu' = IF ~ok THEN [cu EXCEPT !.pc = "thrown", !.clean = FALSE]
           ELSE LET cityIds == WebflowItemIds(OrphanedItems(remote["cities"], SourceIds("cities")))
                    catIds == WebflowItemIds(OrphanedItems(remote["categories"], SourceIds("categories")))
                    r == Stepped(cu, "orphans", "list", {})
                IN IF cityIds = <<>> /\ catIds = <<>>
                     THEN EnterCityCleanup(r)
                     ELSE [r EXCEPT !.pc = "refList", !.cityIdsToDelete = cityIds,
                                    !.categoryIdsToDelete = catIds]
  /\ UNCHANGED <<remote, local, nextId, sy>>

\* removeReferencesToItems up to its loop: getLocales, fetchAllItems of the
\* studios, the scan.
RefList(ok) ==
  /\ cu.pc = "refList"
  /\ Try(ok)
  /\ lastReq' = Request("studios", "list", {}, ok)
  /\ cu' = IF ~ok THEN [cu EXCEPT !.pc = "thrown", !.clean = FALSE]
           ELSE LET its == ItemsToUpdate(remote["studios"],
                             SeqToSet(cu.cityIdsToDelete) \cup SeqToSet(cu.categoryIdsToDelete))
                    r == Stepped(cu, "strip", "list", {})
                IN IF its = <<>> THEN EnterCityCleanup(r)
                   ELSE [r EXCEPT !.pc = "refUpdate", !.itemsToUpdate = its, !.off = 0]
  /\ UNCHANGED <<remote, local, nextId, sy>>

\* removeReferencesToItems, one batch: updateItemsLive. A failure is recorded
\* (cleanupAll files it under the cities) and the loop moves on.
RefUpdate(ok) ==
  LET batch == SubSeq(cu.itemsToUpdate, cu.off + 1,
                      Min(cu.off + RefBatchSize, Len(cu.itemsToUpdate)))
      payload == RefPayload(batch)
      accepted == ok /\ \A k \in 1..Len(payload) : EntryExists(remote["studios"], payload[k])
  IN
  /\ cu.pc = "refUpdate"
  /\ Try(ok)
  /\ lastReq' = Request("studios", "updateLive", {batch[k].id : k \in 1..Len(batch)}, accepted)
  /\ remote' = IF accepted THEN [remote EXCEPT !["studios"] = RemoteUpdate(@, payload)]
               ELSE remote
  /\ cu' = LET r == Stepped(cu, "strip", "updateLive", {batch[k].id : k \in 1..Len(batch)})
           IN NextRefChunk(IF accepted THEN [r EXCEPT !.refUpdated = @ + Len(batch)]
                           ELSE [r EXCEPT !.errors["cities"] = @ + 1, !.clean = FALSE,
                                          !.refFailed = @ \cup {batch[k].id : k \in 1..Len(batch)}])
  /\ UNCHANGED <<local, nextId, sy>>

CleanupStep ==
  \/ \E ok \in BOOLEAN : CleanupList(ok)
  \/ \E ok \in BOOLEAN : CleanupDeleteLive(ok)
  \/ \E ok \in BOOLEAN : CleanupDeletePerm(ok)
  \/ \E ok \in BOOLEAN : CleanupFindOrphans(ok)
  \/ \E ok \in BOOLEAN : RefList(ok)
  \/ \E ok \in BOOLEAN : RefUpdate(ok)

(***************************************************************************)
(* One collection, reconciled by consecutive syncCollection runs from any   *)
(* remote state.                                                            *)
(***************************************************************************)
MaxRemote == 2    \* remote items the collection holds at the start

LocalIds == <<"a", "b">>
InitExts == {"", "a", "b"}

\* Local entity sets: the subsequences of LocalIds.
LocalItem(id) == [id |-> id, city |-> "", cats |-> <<>>]
LocalSets ==
  {SeqMap(LocalItem, SelectSeq(LocalIds, LAMBDA id : id \in S)) :
     S \in SUBSET SeqToSet(LocalIds)}

\* Any remote item: variants in any non-empty set of locales, each with any
\* value of the identifier field, or none.
InitVariants ==
  UNION {[S -> {[BlankVariant EXCEPT !.ext = e, !.slug = "old"] : e \in InitExts}] :
           S \in (SUBSET Locales) \ {{}}}

\* The rate limiter as constructed with its defaults, unused.
RLUnused ==
  /\ minTime = 0 /\ maxTokens = 1 /\ refillInterval = 2
  /\ tokens = 1 /\ lastRequestTime = 0 /\ now = Epoch
  /\ nextRefill = Epoch + 2
  /\ opState = [i \in Ops |-> "unscheduled"]
  /\ opWake = [i \in Ops |-> 0]
  /\ opStart = [i \in Ops |-> -1]
  /\ opResult = [i \in Ops |-> Pending]

InitSync ==
  /\ RLUnused
  /\ \E n \in 0..MaxRemote : \E f \in [1..n -> InitVariants] :
       /\ remote = [c \in Colls |->
                      IF c = "cities" THEN [k \in 1..n |-> [id |-> k, v |-> f[k]]]
                      ELSE <<>>]
       /\ nextId = n + 1
  /\ \E items \in LocalSets :
       local = [c \in Colls |-> IF c = "cities" THEN items ELSE <<>>]
  /\ fails = 0
  /\ failLimit = MaxFails
  /\ limit = batchSize
  /\ pg = IdlePager
  /\ lastReq = NoRequest
  /\ sy = [c \in Colls |-> IdleSync]
  /\ cu = IdleCleanup

NextSync ==
  \/ SyncStart("cities")
  \/ SyncStep("cities")

SpecSync == InitSync /\ [][NextSync]_vars


(***************************************************************************)
(* The three collections, reconciled by one syncAll or one cleanupAll call. *)
(***************************************************************************)
\* A remote item whose variants in every locale carry identifier ext.
CleanItem(id, ext) ==
  [id |-> id, v |-> [l \in Locales |-> [BlankVariant EXCEPT !.ext = ext, !.slug = "old"]]]

InitCities == <<CleanItem(1, "a"), CleanItem(2, "b")>>
InitCategories == <<CleanItem(3, "a")>>

\* The variants a remote studio may start with: any city reference or none,
\* any category reference or none.
StudioVariants ==
  {[BlankVariant EXCEPT !.ext = "a", !.slug = "old", !.city = c, !.cats = k] :
     c \in {NoRef} \cup {InitCities[j].id : j \in 1..Len(InitCities)},
     k \in {<<>>} \cup {<<InitCategories[j].id>> : j \in 1..Len(InitCategories)}}

LocalStudios ==
  {<<>>, <<[id |-> "b", city |-> "a", cats |-> <<"a">>]>>}
    \cup {<<[id |-> "a", city |-> c, cats |-> k]>> : c \in {"", "a"}, k \in {<<>>, <<"a">>}}

InitAll ==
  /\ RLUnused
  /\ \E f \in [Locales -> StudioVariants] :
       remote = [c \in Colls |->
                   CASE c = "cities" -> InitCities
                     [] c = "categories" -> InitCategories
                     [] OTHER -> <<[id |-> 4, v |-> f]>>]
  /\ nextId = 5
  /\ \E ci \in {<<LocalItem("a")>>, <<LocalItem("a"), LocalItem("b")>>},
        ca \in {<<>>, <<LocalItem("a")>>},
        st \in LocalStudios :
       local = [c \in Colls |->
                  CASE c = "cities" -> ci [] c = "categories" -> ca [] OTHER -> st]
  /\ fails = 0
  /\ failLimit = MaxFails
  /\ limit = batchSize
  /\ pg = IdlePager
  /\ lastReq = NoRequest
  /\ sy = [c \in Colls |-> IdleSync]
  /\ cu = IdleCleanup

NextAll ==
  \/ SyncAllStart
  \/ \E c \in Colls : SyncStep(c)
  \/ \E ok \in BOOLEAN : SyncAllStudios(ok)
  \/ SyncAllCleanup
  \/ CleanupAllStart
  \/ CleanupStep

SpecAll == InitAll /\ [][NextAll]_vars


(***************************************************************************)
(* One cleanupAll call over the three collections, with two remote          *)
(* categories and two remote studios: studio a with any references in each  *)
(* locale, studio b with the same references in every locale, among them    *)
(* lists of two categories.                                                 *)
(***************************************************************************)
CleanupCategories == <<CleanItem(3, "a"), CleanItem(6, "b")>>

CategoryLists == {<<>>, <<3>>, <<6>>, <<3, 6>>, <<6, 3>>}

StudioBVariants ==
  {[BlankVariant EXCEPT !.ext = "b", !.slug = "old", !.city = c, !.cats = k] :
     c \in {NoRef} \cup {InitCities[j].id : j \in 1..Len(InitCities)},
     k \in CategoryLists}

InitCleanup ==
  /\ RLUnused
  /\ \E f \in [Locales -> StudioVariants], g \in StudioBVariants :
       remote = [c \in Colls |->
                   CASE c = "cities" -> InitCities
                     [] c = "categories" -> CleanupCategories
                     [] OTHER -> <<[id |-> 4, v |-> f], [id |-> 5, v |-> [l \in Locales |-> g]]>>]
  /\ nextId = 7
  /\ \E ci \in {<<LocalItem("a")>>, <<LocalItem("a"), LocalItem("b")>>},
        ca \in {<<>>, <<LocalItem("a")>>, <<LocalItem("b")>>},
        st \in LocalSets :
       local = [c \in Colls |->
                  CASE c = "cities" -> ci [] c = "categories" -> ca [] OTHER -> st]
  /\ fails = 0
  /\ failLimit = MaxFails
  /\ limit = batchSize
  /\ pg = IdlePager
  /\ lastReq = NoRequest
  /\ sy = [c \in Colls |-> IdleSync]
  /\ cu = IdleCleanup

NextCleanup ==
  \/ CleanupAllStart
  \/ CleanupStep

SpecCleanup == InitCleanup /\ [][NextCleanup]_vars


(***************************************************************************)
(* The batch operators under any pattern of failing chunks: one collection  *)
(* with up to MaxBatchItems orphans to delete and as many entities to       *)
(* create, update and publish.                                              *)
(***************************************************************************)
MaxBatchItems == 3   \* items handed to one batch operator
MaxBatchFails == 3   \* remote requests that may fail in a behaviour

BatchLocalIds == <<"a", "b", "c", "d">>
BatchOrphanExts == <<"w", "x", "y", "z">>

InitBatch ==
  /\ RLUnused
  /\ \E n \in 0..MaxBatchItems :
       /\ remote = [c \in Colls |->
                      IF c = "cities" THEN [k \in 1..n |-> CleanItem(k, BatchOrphanExts[k])]
                      ELSE <<>>]
       /\ nextId = n + 1
  /\ \E m \in 0..MaxBatchItems :
       local = [c \in Colls |->
                  IF c = "cities" THEN [k \in 1..m |-> LocalItem(BatchLocalIds[k])] ELSE <<>>]
  /\ fails = 0
  /\ failLimit = MaxBatchFails
  /\ limit \in {batchSize, batchSize + 1}
  /\ pg = IdlePager
  /\ lastReq = NoRequest
  /\ sy = [c \in Colls |-> IdleSync]
  /\ cu = IdleCleanup

NextBatch ==
  \/ SyncStart("cities")
  \/ SyncStep("cities")

SpecBatch == InitBatch /\ [][NextBatch]_vars


(***************************************************************************)
(* The discovery and categorization of one syncCollection call, from any    *)
(* remote state and any local entity set.                                   *)
(***************************************************************************)
NextCategorize ==
  \/ SyncStart("cities")
  \/ \E o \in SetupOutcomes : SyncSetup("cities", o)
  \/ \E ok \in BOOLEAN : SyncDiscover("cities", ok)

SpecCategorize == InitSync /\ [][NextCategorize]_vars


(***************************************************************************)
(* One collection that starts with a corrupted group or with duplicate      *)
(* groups, reconciled by syncCollection runs in which up to MaxPurgeFails   *)
(* requests fail.                                                           *)
(***************************************************************************)
MaxPurgeFails == 2   \* remote requests that may fail in a behaviour

\* The item's variants disagree on the identifier, or an earlier or later
\* item carries the same first identifier.
AmbiguousItem(items, k) ==
  LET exts(it) == {it.v[l].ext : l \in DOMAIN it.v} \ {""}
      first(it) == it.v[CHOOSE l \in DOMAIN it.v :
                          it.v[l].ext # "" /\ \A m \in DOMAIN it.v : it.v[m].ext # "" => l <= m].ext
  IN /\ exts(items[k]) # {}
     /\ \/ Cardinality(exts(items[k])) > 1
        \/ \E j \in 1..Len(items) :
             j # k /\ exts(items[j]) # {} /\ first(items[j]) = first(items[k])

InitPurge ==
  /\ RLUnused
  /\ \E n \in 1..MaxRemote : \E f \in [1..n -> InitVariants] :
       /\ remote = [c \in Colls |->
                      IF c = "cities" THEN [k \in 1..n |-> [id |-> k, v |-> f[k]]]
                      ELSE <<>>]
       /\ \E k \in 1..n : AmbiguousItem(remote["cities"], k)
       /\ nextId = n + 1
  /\ \E items \in LocalSets :
       local = [c \in Colls |-> IF c = "cities" THEN items ELSE <<>>]
  /\ fails = 0
  /\ failLimit = MaxPurgeFails
  /\ limit = batchSize
  /\ pg = IdlePager
  /\ lastReq = NoRequest
  /\ sy = [c \in Colls |-> IdleSync]
  /\ cu = IdleCleanup

NextPurge ==
  \/ SyncStart("cities")
  \/ SyncStep("cities")

SpecPurge == InitPurge /\ [][NextPurge]_vars


(***************************************************************************)
(* One collection from any remote state, with a per-request limit that is   *)
(* smaller than the lists of the run and that the number of locales does    *)
(* not divide (as 100 is not divided by 3 locales), and up to MaxChunkFails *)
(* failing requests: what the counts of the result say.                     *)
(***************************************************************************)
MaxChunkFails == 2

InitCounts ==
  /\ RLUnused
  /\ \E n \in 0..MaxRemote : \E f \in [1..n -> InitVariants] :
       /\ remote = [c \in Colls |->
                      IF c = "cities" THEN [k \in 1..n |-> [id |-> k, v |-> f[k]]]
                      ELSE <<>>]
       /\ nextId = n + 1
  /\ \E items \in LocalSets :
       local = [c \in Colls |-> IF c = "cities" THEN items ELSE <<>>]
  /\ fails = 0
  /\ failLimit = MaxChunkFails
  /\ limit = batchSize - 1
  /\ pg = IdlePager
  /\ lastReq = NoRequest
  /\ sy = [c \in Colls |-> IdleSync]
  /\ cu = IdleCleanup

NextCounts ==
  \/ SyncStart("cities")
  \/ SyncStep("cities")

SpecCounts == InitCounts /\ [][NextCounts]_vars


(***************************************************************************)
(* One collection that holds an item without any identifier value, and on  *)
(* which syncCollection runs and cleanupAll are called, in any order and    *)
(* also at the same time.                                                   *)
(***************************************************************************)
\* No variant of the item carries a value of the identifier field.
Unmappable(it) == \A l \in DOMAIN it.v : it.v[l].ext = ""

\* The cities hold an item without identifier (id 1) and at most one other
\* item of any kind (id 2); a studio (id 3) refers to a city.
UnmappableVariants == {f \in InitVariants : \A l \in DOMAIN f : f[l].ext = ""}

InitUnmappable ==
  /\ RLUnused
  /\ \E u \in UnmappableVariants :
     \E others \in {<<>>} \cup {<<[id |-> 2, v |-> f]>> : f \in InitVariants} :
     \E city \in {1, 2} :
       remote = [c \in Colls |->
                   CASE c = "cities" -> <<[id |-> 1, v |-> u]>> \o others
                     [] c = "studios" ->
                          <<[id |-> 3, v |-> [l \in Locales |->
                               [BlankVariant EXCEPT !.ext = "a", !.slug = "old", !.city = city]]]>>
                     [] OTHER -> <<>>]
  /\ nextId = 4
  /\ \E items \in LocalSets :
       local = [c \in Colls |->
                  CASE c = "cities" -> items
                    [] c = "studios" -> <<LocalItem("a")>>
                    [] OTHER -> <<>>]
  /\ fails = 0
  /\ failLimit = MaxFails
  /\ limit = batchSize
  /\ pg = IdlePager
  /\ lastReq = NoRequest
  /\ sy = [c \in Colls |-> IdleSync]
  /\ cu = IdleCleanup

NextUnmappable ==
  \/ SyncStart("cities")
  \/ SyncStep("cities")
  \/ CleanupAllStart
  \/ CleanupStep

SpecUnmappable == InitUnmappable /\ [][NextUnmappable]_vars


(***************************************************************************)
(* The paginated listing loop of fetchAllItems and of                       *)
(* fetchAndMapItemsByIdentifier against a remote service that answers each  *)
(* listItems request with a page of any length and any total up to          *)
(* MaxTotal.                                                                *)
(***************************************************************************)
MaxTotal == 5     \* the largest pagination.total the remote service reports

\* The function is called: offset = 0, nothing fetched.
PageStart(fn) ==
  /\ pg.pc = "idle"
  /\ pg' = [IdlePager EXCEPT !.pc = "paging", !.fn = fn]
  /\ UNCHANGED <<rlVars, remote, local, nextId, fails, failLimit, limit, lastReq, sy, cu>>

\* One turn of while (true): the listItems request at the current offset
\* throws, or is answered with the next len rows of the listing (a full
\* page, a short one or an empty one) and any total. The answer of an
\* unchanged, well-behaved listing is the full page with the number of rows
\* as total.
PageResponse(ok, len, total) ==
  LET rows == ListItems(remote["cities"])
      items == SubSeq(rows, pg.offset + 1, pg.offset + len)
      offset == pg.offset + Len(items)
  IN
  /\ pg.pc = "paging"
  /\ pg.pages <= MaxTotal
  /\ ok \/ fails < failLimit
  /\ len <= limit
  /\ pg.offset + len <= Len(rows)
  /\ ~ok => len = 0 /\ total = 0
  /\ fails' = IF ok THEN fails ELSE fails + 1
  /\ lastReq' = Request("cities", "list", {}, ok)
  /\ pg' = IF ~ok THEN [pg EXCEPT !.pc = "thrown", !.pages = @ + 1]
           ELSE [pg EXCEPT
                   !.pc = IF PageDone(offset, total, Len(items)) THEN "done" ELSE "paging",
                   !.offset = offset,
                   !.allRows = @ \o Pushed(pg.fn, items),
                   !.pages = @ + 1,
                   !.stable = @ /\ items = Chunk(rows, pg.offset) /\ total = Len(rows)]
  /\ UNCHANGED <<rlVars, remote, local, nextId, failLimit, limit, sy, cu>>

\* The items listed: each with a variant in any non-empty set of locales
\* (the field data plays no part in the paging).
PagedVariants == UNION {[S -> {BlankVariant}] : S \in (SUBSET Locales) \ {{}}}

InitPaging ==
  /\ RLUnused
  /\ \E n \in 0..MaxRemote : \E f \in [1..n -> PagedVariants] :
       /\ remote = [c \in Colls |->
                      IF c = "cities" THEN [k \in 1..n |-> [id |-> k, v |-> f[k]]]
                      ELSE <<>>]
       /\ nextId = n + 1
  /\ local = [c \in Colls |-> <<>>]
  /\ fails = 0
  /\ failLimit = MaxFails
  /\ limit = batchSize
  /\ pg = IdlePager
  /\ lastReq = NoRequest
  /\ sy = [c \in Colls |-> IdleSync]
  /\ cu = IdleCleanup

NextPaging ==
  \/ \E fn \in Fetchers : PageStart(fn)
  \/ \E ok \in BOOLEAN, len \in 0..(batchSize + 1), total \in 0..MaxTotal : PageResponse(ok, len, total)

SpecPaging == InitPaging /\ [][NextPaging]_vars


(***************************************************************************)
(* The rate limiter alone, with any callers.                                *)
(***************************************************************************)
InitRLSpec ==
  /\ InitRL
  /\ remote = [c \in Colls |-> <<>>]
  /\ local = [c \in Colls |-> <<>>]
  /\ nextId = 1
  /\ fails = 0
  /\ failLimit = MaxFails
  /\ limit = batchSize
  /\ pg = IdlePager
  /\ lastReq = NoRequest
  /\ sy = [c \in Colls |-> IdleSync]
  /\ cu = IdleCleanup

NextRL ==
  \/ \E i \in Ops : Schedule(i)
  \/ \E i \in Ops : Dequeue(i)
  \/ \E i \in Ops : WakeToken(i)
  \/ \E i \in Ops : WakeSpacing(i)
  \/ \E i \in Ops, ok \in BOOLEAN : Settle(i, ok)
  \/ Refill
  \/ Tick

SpecRL == InitRLSpec /\ [][NextRL]_vars

\* The rate limiter with time that never stops, and the scheduling the
\* event loop gives: a callback whose promise settled runs, a timer that is
\* due fires, the clock advances, and every operation that was started
\* settles (fulfilled or rejected).
MaxLiveOps == 2   \* operations handed to the scheduler in such a behaviour

NextRLLive ==
  \/ \E i \in 1..MaxLiveOps : Schedule(i)
  \/ \E i \in Ops : Dequeue(i)
  \/ \E i \in Ops : WakeToken(i)
  \/ \E i \in Ops : WakeSpacing(i)
  \/ \E i \in Ops, ok \in BOOLEAN : Settle(i, ok)
  \/ Refill
  \/ Tick
  \/ Rebase

FairRL ==
  /\ \A i \in Ops : WF_vars(Dequeue(i))
  /\ \A i \in Ops : WF_vars(WakeToken(i))
  /\ \A i \in Ops : WF_vars(WakeSpacing(i))
  /\ \A i \in Ops : WF_vars(Settle(i, TRUE) \/ Settle(i, FALSE))
  /\ WF_vars(Refill)
  /\ WF_vars(Tick \/ Rebase)

SpecRLLive == InitRLSpec /\ [][NextRLLive]_vars /\ FairRL


(***************************************************************************)
(* cleanupAll on cities in any remote state, deleted in several batches:    *)
(* up to MaxRemote cities with variants in any locales and any identifier   *)
(* values, one studio that refers to the first city, and a request limit    *)
(* below the number of items to delete.                                     *)
(***************************************************************************)
OrphanStudio ==
  [id |-> MaxRemote + 1,
   v |-> [l \in Locales |-> [BlankVariant EXCEPT !.ext = "a", !.slug = "old", !.city = 1]]]

InitOrphans ==
  /\ RLUnused
  /\ \E n \in 0..MaxRemote : \E f \in [1..n -> InitVariants] :
       remote = [c \in Colls |->
                   CASE c = "cities" -> [k \in 1..n |-> [id |-> k, v |-> f[k]]]
                     [] c = "studios" -> <<OrphanStudio>>
                     [] OTHER -> <<>>]
  /\ nextId = MaxRemote + 2
  /\ \E items \in LocalSets :
       local = [c \in Colls |->
                  CASE c = "cities" -> items
                    [] c = "studios" -> <<LocalItem("a")>>
                    [] OTHER -> <<>>]
  /\ fails = 0
  /\ failLimit = MaxChunkFails
  /\ limit = batchSize - 1
  /\ pg = IdlePager
  /\ lastReq = NoRequest
  /\ sy = [c \in Colls |-> IdleSync]
  /\ cu = IdleCleanup

NextOrphans ==
  \/ CleanupAllStart
  \/ CleanupStep

SpecOrphans == InitOrphans /\ [][NextOrphans]_vars

(***************************************************************************)
(* CLAIMS: rate limiter (checked under SpecRL)                              *)
(***************************************************************************)
Started == {i \in Ops : opStart[i] >= 0}
InSlot == {i \in Ops : opState[i] \in {"waitToken", "waitSpacing"}}

\* Operations whose start time lies in the window [t, t + refillInterval).
StartsInWindow(t) ==
  Cardinality({i \in Started : opStart[i] >= t /\ opStart[i] < t + refillInterval})

Times == Epoch..(Epoch + MaxTime)

\* C3: at every moment at most one operation handed to the scheduler is
\* executing (started and not yet settled), however many callers have
\* scheduled operations concurrently.
C3_AtMostOneExecuting ==
  Cardinality({i \in Ops : opState[i] = "running"}) <= 1

\* C3 witness: one operation is executing while two more, scheduled
\* concurrently, wait in the queue behind it.
C3_Witness ==
  /\ opState[1] = "running"
  /\ opState[2] = "queued"
  /\ opState[3] = "queued"

\* C4: the start times of any two operations of one rate limiter are at
\* least minTime apart, whether the earlier one succeeded or failed and
\* however long it ran.
C4_MinSpacing ==
  \A i, j \in Started : i < j => opStart[j] - opStart[i] >= minTime

\* C4 witness: with a positive minTime, an operation failed at once and the
\* next one started exactly minTime after it, and a later one started after
\* an operation that ran longer than minTime.
C4_Witness ==
  /\ minTime > 0
  /\ opState[1] = "err"
  /\ opStart[2] = opStart[1] + minTime
  /\ opState[2] = "ok"
  /\ opStart[3] > opStart[2] + minTime

\* C5 as amended: the token count stays within 0..maxTokens, at most one
\* operation at a time is between the token check and the decrement, and at
\* most maxTokens + 1 operations start within one refill interval (the
\* bucket's content plus the one token the timer adds in that interval).
C5_TokenBounds ==
  /\ tokens >= 0
  /\ tokens <= maxTokens
  /\ Cardinality(InSlot) <= 1
  /\ \A t \in Times : StartsInWindow(t) <= maxTokens + 1

\* C5 as stated: ... and no more than maxTokens operations start within one
\* refill interval.
C5_Original ==
  /\ tokens >= 0
  /\ tokens <= maxTokens
  /\ Cardinality(InSlot) <= 1
  /\ \A t \in Times : StartsInWindow(t) <= maxTokens

\* C5 witness: an operation found the bucket empty, waited for the refill
\* timer, and started on the refilled token, which left the bucket empty.
C5_Witness ==
  /\ \E i \in Started : opStart[i] >= nextRefill - refillInterval /\ opState[i] = "running"
  /\ tokens = 0
  /\ \E t \in Times : StartsInWindow(t) = maxTokens + 1

\* C6: an operation's promise holds that operation's own outcome (its own
\* error when it failed), no operation is dropped because an earlier one
\* failed, and a settled promise belongs to an operation that was executed.
C6_FailureIsolated ==
  \A i \in Ops :
    /\ opState[i] # "skipped"
    /\ opState[i] = "err" => opResult[i] = Rejected(i)
    /\ opState[i] = "ok" => opResult[i] = Fulfilled(i)
    /\ opResult[i] # Pending => opResult[i].of = i /\ opStart[i] >= 0

\* C6 witness: the second of three operations failed; the one before it and
\* the one after it were executed and delivered their own results.
C6_Witness ==
  /\ opResult[1] = Fulfilled(1)
  /\ opResult[2] = Rejected(2)
  /\ opResult[3] = Fulfilled(3)
  /\ opStart[3] >= 0

\* Operations that left the queue: their callback ran waitForSlot.
Dequeued == {i \in Ops : opState[i] \notin {"unscheduled", "queued"}}

\* C31: operations scheduled through one rate limiter start in the order in
\* which schedule was called (operation i is the i-th call), and an
\* operation does not leave the queue, let alone start, before every
\* operation scheduled earlier has started and settled.
C31_StartInScheduleOrder ==
  \A i, j \in Ops :
    (i < j /\ j \in Dequeued) =>
      /\ Settled(i)
      /\ opStart[i] >= 0
      /\ opStart[j] >= 0 => opStart[i] <= opStart[j]

\* C31 witness: of three scheduled operations the first was rejected, the
\* second fulfilled, and the third is executing, each having started later
\* than the one before it.
C31_Witness ==
  /\ opState[1] = "err"
  /\ opState[2] = "ok"
  /\ opState[3] = "running"
  /\ opStart[1] < opStart[2]
  /\ opStart[2] < opStart[3]


(***************************************************************************)
(* CLAIMS: progress of the rate limiter (checked under SpecRLLive)           *)
(***************************************************************************)
HasStarted(i) == opState[i] \in {"running", "ok", "err"}

\* C32: every operation handed to the scheduler eventually starts, given
\* that every started operation settles and the timers keep firing: an
\* operation that finds no token waits and runs after a refill; it is never
\* dropped and never waits forever.
C32_EveryOperationStarts ==
  \A i \in Ops : (opState[i] = "queued") ~> HasStarted(i)

\* C32 witness: with no spacing to wait for, an operation found the bucket
\* empty, waited for delay(refillInterval), and has started at or after the
\* time that delay was due.
C32_Witness ==
  \E i \in Ops :
    /\ minTime = 0
    /\ opState[i] = "running"
    /\ opWake[i] > 0
    /\ opStart[i] >= opWake[i]
    /\ now <= Epoch + MaxTime - 1


(***************************************************************************)
(* CLAIMS: syncCollection on one collection (checked under SpecSync)        *)
(***************************************************************************)
S == sy["cities"]
LocalIdSet(c) == {local[c][k].id : k \in 1..Len(local[c])}
RemoteIds(c) == {remote[c][k].id : k \in 1..Len(remote[c])}
ItemOf(c, id) == remote[c][CHOOSE k \in 1..Len(remote[c]) : remote[c][k].id = id]

\* The run of the sync on collection c has returned and none of its remote
\* requests failed.
CleanDone(c) == sy[c].pc = "done" /\ sy[c].clean

\* The distinct non-empty identifier values an item's variants carry.
ExtsOf(it) == {it.v[l].ext : l \in DOMAIN it.v} \ {""}
\* The first identifier value in listing order: the provisional identifier.
FirstExt(it) ==
  LET ls == {l \in DOMAIN it.v : it.v[l].ext # ""}
  IN it.v[CHOOSE l \in ls : \A m \in ls : l <= m].ext

\* The remote items filed under an identifier: the groups of that identifier.
GroupsOf(items, ext) ==
  {k \in 1..Len(items) : ExtsOf(items[k]) # {} /\ FirstExt(items[k]) = ext}

\* Exactly one remote group carries identifier ext, it has one variant per
\* configured locale and its variants agree on the identifier.
OneCompleteGroup(c, ext) ==
  /\ Cardinality(GroupsOf(remote[c], ext)) = 1
  /\ \A k \in GroupsOf(remote[c], ext) :
       /\ DOMAIN remote[c][k].v = Locales
       /\ Cardinality(ExtsOf(remote[c][k])) = 1

\* The local entities whose identifier the re-read resolves: some remote
\* item's first listed variant carries it.
Resolved(c) ==
  {id \in LocalIdSet(c) :
     \E k \in 1..Len(remote[c]) :
       remote[c][k].v[CHOOSE l \in DOMAIN remote[c][k].v :
                        \A m \in DOMAIN remote[c][k].v : l <= m].ext = id}

\* C2 as amended: a second consecutive run with the same local entities, no
\* failing remote call in either run, returns created = 0 and deleted = 0,
\* and updated = the number of local entities the re-read resolves (every
\* run sends every entity's update again).
C2_SecondRunNoCreateNoDelete ==
  (S.run = 2 /\ CleanDone("cities") /\ S.prevClean) =>
     /\ S.created = 0
     /\ S.deleted = 0
     /\ S.updated = Cardinality(Resolved("cities"))

\* C2 as stated: the second run returns created = 0, updated = 0 and
\* deleted = 0.
C2_Original ==
  (S.run = 2 /\ CleanDone("cities") /\ S.prevClean) =>
     /\ S.created = 0
     /\ S.updated = 0
     /\ S.deleted = 0

\* C2 witness: a second clean run after a clean first run, with two local
\* entities, has returned and reports both as updated.
C2_Witness ==
  /\ S.run = 2 /\ CleanDone("cities") /\ S.prevClean
  /\ Len(local["cities"]) = 2
  /\ S.updated = 2

\* C7: whatever the remote state was (left by a failed earlier run, or with
\* duplicate, corrupted, incomplete or orphaned groups), after a run with no
\* failing remote call every local entity id has exactly one remote group,
\* with one variant per configured locale, and no remote group carries an
\* identifier that has no local entity.
C7_Converges ==
  CleanDone("cities") =>
     /\ \A id \in LocalIdSet("cities") : OneCompleteGroup("cities", id)
     /\ \A k \in 1..Len(remote["cities"]) :
          ExtsOf(remote["cities"][k]) # {} =>
            FirstExt(remote["cities"][k]) \in LocalIdSet("cities")

\* C7 witness: a clean run that followed a run with failed requests has
\* returned, having deleted and created groups.
C7_Witness ==
  /\ CleanDone("cities") /\ S.run = 2 /\ ~S.prevClean
  /\ S.deleted > 0 /\ S.created > 0
  /\ Len(local["cities"]) = 2

\* The identifiers that had two or more remote groups when the run read the
\* remote state.
Duplicated(c) ==
  {ext \in InitExts \ {""} : Cardinality(GroupsOf(sy[c].seen, ext)) > 1}

\* C8: when the run found several groups for the identifier of a local
\* entity and no remote call failed, every one of those groups is gone and
\* the identifier has exactly one group, complete, whose variant in every
\* locale carries the field data built for that locale.
C8_DuplicatesConverge ==
  CleanDone("cities") =>
    \A ext \in Duplicated("cities") \cap LocalIdSet("cities") :
      /\ \A k \in GroupsOf(S.seen, ext) : S.seen[k].id \notin RemoteIds("cities")
      /\ OneCompleteGroup("cities", ext)
      /\ \A k \in GroupsOf(remote["cities"], ext) : \A l \in Locales :
           /\ remote["cities"][k].v[l].ext = ext
           /\ remote["cities"][k].v[l].name = [of |-> ext, tag |-> l]

\* C8 witness: a clean run that found a duplicated local identifier has
\* returned.
C8_Witness ==
  /\ CleanDone("cities")
  /\ Duplicated("cities") \cap LocalIdSet("cities") # {}

\* The remote items, as the run read them, whose variants disagree on the
\* identifier field.
Disagreeing(c) == {k \in 1..Len(sy[c].seen) : Cardinality(ExtsOf(sy[c].seen[k])) > 1}

\* What C9 promises of a run, for the groups it found disagreeing.
CorruptionHealed(c) ==
  \A k \in Disagreeing(c) :
    /\ sy[c].seen[k].id \notin RemoteIds(c)
    /\ FirstExt(sy[c].seen[k]) \in LocalIdSet(c) =>
         /\ OneCompleteGroup(c, FirstExt(sy[c].seen[k]))
         /\ \A j \in GroupsOf(remote[c], FirstExt(sy[c].seen[k])) : \A l \in Locales :
              remote[c][j].v[l].ext = FirstExt(sy[c].seen[k])

RefsOf(variant) ==
  SeqToSet(variant.cats) \cup (IF variant.city = NoRef THEN {} ELSE {variant.city})

\* The remote ids some locale variant of some remote studio holds.
HeldByStudios ==
  UNION {UNION {RefsOf(remote["studios"][k].v[l]) : l \in DOMAIN remote["studios"][k].v} :
           k \in 1..Len(remote["studios"])}

\* The last request issued is a delete (unpublish or permanent) of cities or
\* categories.
DeleteOfReferenced ==
  /\ lastReq.kind \in {"deleteLive", "delete"}
  /\ lastReq.coll \in {"cities", "categories"}

\* C1 as stated: no delete request (unpublish or permanent delete) for a city
\* or category is issued, in syncAll or in cleanupAll, while a studio holds
\* that item's remote id in its city or categories field.
C1_NoDeleteWhileReferenced ==
  DeleteOfReferenced => lastReq.ids \cap HeldByStudios = {}

\* The remote ids of the cities and categories cleanupAll has deleted.
DeletedByCleanup == SeqToSet(cu.deletedWebflowIds["cities"]) \cup SeqToSet(cu.deletedWebflowIds["categories"])

\* C10 as stated: after cleanupAll has completed with no failing remote
\* call, no locale variant of a remaining studio holds the remote id of a
\* city or category that cleanupAll deleted.
C10_NoDanglingReference ==
  (cu.pc = "done" /\ cu.clean)
     => DeletedByCleanup \cap HeldByStudios = {}


\* C16 as stated: a run whose discovery listing fails has returned a result
\* with that one error entry and all counts zero; it has not raised.
C16_DiscoveryFailureReturned ==
  \A c \in Colls :
    sy[c].abort = "discover" =>
      /\ sy[c].pc = "done"
      /\ sy[c].errors = 1
      /\ sy[c].created = 0 /\ sy[c].updated = 0 /\ sy[c].deleted = 0

\* The remote ids the locale variants of the remote studio with this id hold.
HeldBy(studioId) ==
  UNION {UNION {RefsOf(remote["studios"][k].v[l]) : l \in DOMAIN remote["studios"][k].v} :
           k \in {k \in 1..Len(remote["studios"]) : remote["studios"][k].id = studioId}}

\* C20 as stated: when the reference-stripping update of a studio has failed
\* in a cleanupAll run, the failure is recorded and no city or category that
\* studio still holds has been deleted by that run.
C20_FailedStripBlocksDelete ==
  \A id \in cu.refFailed :
    /\ cu.errors["cities"] >= 1
    /\ HeldBy(id) \cap DeletedByCleanup = {}


\* The local entities an accepted createItems request of the run carried.
CreatedOk(c) ==
  {sy[c].allToCreate[j].id : j \in
     {j \in 1..Len(sy[c].allToCreate) :
        \E k \in 1..Len(sy[c].log) :
          /\ sy[c].log[k].op = "create" /\ sy[c].log[k].res = "ok"
          /\ sy[c].log[k].off < j /\ j <= sy[c].log[k].off + limit}}

\* The local entities all of whose update entries were in accepted
\* updateItems requests of the run.
UpdatedOk(c) ==
  {id \in LocalIdSet(c) :
     /\ Lookup(sy[c].idByIdentifier, id) # NoRef
     /\ \A j \in 1..Len(sy[c].updateEntries) :
          sy[c].updateEntries[j].id = Lookup(sy[c].idByIdentifier, id) =>
            \E k \in 1..Len(sy[c].log) :
              /\ sy[c].log[k].op = "update" /\ sy[c].log[k].res = "ok"
              /\ sy[c].log[k].off < j /\ j <= sy[c].log[k].off + limit}

\* Some remote group of identifier ext has one variant per configured locale.
HasCompleteGroup(c, ext) ==
  \E k \in GroupsOf(remote[c], ext) : DOMAIN remote[c][k].v = Locales

Incomplete(c) ==
  {id \in LocalIdSet(c) :
     /\ Cardinality(GroupsOf(sy[c].seen, id)) = 1
     /\ \A k \in GroupsOf(sy[c].seen, id) :
          /\ Cardinality(ExtsOf(sy[c].seen[k])) = 1
          /\ DOMAIN sy[c].seen[k].v # Locales}

\* The remote state the run read was one incomplete group, of the one local
\* entity.
RecreateScenario ==
  /\ Len(local["cities"]) = 1 /\ Len(S.seen) = 1
  /\ Incomplete("cities") = LocalIdSet("cities")

\* C12 as amended: an entity whose only remote group is incomplete is
\* categorized as toRecreate; a run with no failing remote call deletes that
\* group and creates a fresh one with a variant in every locale, counts the
\* fresh group in created and does not count the incomplete group in
\* deleted, which counts orphaned and corrupted groups only: with one such
\* entity and nothing else, created = 1 and deleted = 0.
C12_RecreateCounts ==
  LET recreated == {S.toRecreate[k].item.id : k \in 1..Len(S.toRecreate)} IN
  /\ S.pc \notin {"idle", "setup", "discover"} /\ S.abort = "ok"
       => Incomplete("cities") = recreated
  /\ CleanDone("cities") =>
       /\ \A id \in Incomplete("cities") :
            /\ \A k \in GroupsOf(S.seen, id) : S.seen[k].id \notin RemoteIds("cities")
            /\ OneCompleteGroup("cities", id)
       /\ S.created = Len(S.toCreate) + Len(S.toRecreate)
       /\ S.deleted = Len(S.orphanIds) + Len(S.corruptedIds)
       /\ RecreateScenario => (S.created = 1 /\ S.deleted = 0)

\* C12 as stated: in that scenario a run with no failing remote call reports
\* deleted = 1 and created = 1.
C12_Original ==
  (CleanDone("cities") /\ RecreateScenario) => (S.deleted = 1 /\ S.created = 1)

\* C12 witness: a clean run that found the one local entity's only group
\* incomplete has returned.
C12_Witness == CleanDone("cities") /\ RecreateScenario /\ S.created = 1

\* The remote items, as the run read them, that are the only group of their
\* identifier, not corrupted, and whose identifier no local entity has.
Orphans(c) ==
  {k \in 1..Len(sy[c].seen) :
     /\ Cardinality(ExtsOf(sy[c].seen[k])) = 1
     /\ FirstExt(sy[c].seen[k]) \notin LocalIdSet(c)
     /\ Cardinality(GroupsOf(sy[c].seen, FirstExt(sy[c].seen[k]))) = 1}

\* What C13 promises of a run, for the orphans it found.
OrphansDeleted(c) == \A k \in Orphans(c) : sy[c].seen[k].id \notin RemoteIds(c)

C14_SetupAbortsCleanly ==
  S.abort \in {"noCollection", "schemaNoCollection", "missingFields", "typeMismatches"} =>
    /\ S.pc = "done"
    /\ S.errors = 1
    /\ S.created = 0 /\ S.updated = 0 /\ S.deleted = 0 /\ S.published = 0
    /\ lastReq.kind = "get"
    /\ S.log = <<>>

\* C14 witness: a run over a non-empty remote collection and a non-empty
\* local set has returned on missing fields.
C14_Witness ==
  /\ S.abort = "missingFields" /\ S.pc = "done"
  /\ remote["cities"] # <<>> /\ local["cities"] # <<>>

\* C15 as stated: when the site has no primary locale syncCollection returns
\* a result with one error entry and all counts zero; it does not raise.
C15_NoPrimaryLocaleReturned ==
  S.abort = "noPrimaryLocale" =>
    /\ S.pc = "done"
    /\ S.errors = 1
    /\ S.created = 0 /\ S.updated = 0 /\ S.deleted = 0 /\ S.published = 0


(***************************************************************************)
(* CLAIMS: the batch operators (checked under SpecBatch)                    *)
(***************************************************************************)
\* What the try blocks of operator op have logged in the current run.
LogOf(op) == SelectSeq(S.log, LAMBDA e : e.op = op)

\* The offsets at which the for loop of a batch operator cuts its list.
Offsets(list) == {o \in 0..(Len(list) - 1) : o % limit = 0}

\* The total size of the chunks of list that the log records as succeeded.
RECURSIVE SumOk(_, _)
SumOk(entries, list) ==
  IF entries = <<>> THEN 0
  ELSE (IF Head(entries).res = "ok" THEN Len(Chunk(list, Head(entries).off)) ELSE 0)
       + SumOk(Tail(entries), list)

NumErrors(entries) == Len(SelectSeq(entries, LAMBDA e : e.res = "error"))

\* Every chunk of list was attempted exactly once by operator op.
EachChunkOnce(op, list) ==
  /\ Len(LogOf(op)) = Cardinality(Offsets(list))
  /\ {LogOf(op)[k].off : k \in 1..Len(LogOf(op))} = Offsets(list)

\* The operator has returned in the current run.
Returned(op) ==
  CASE op = "delete" -> S.pc \in {"create", "refetch", "update", "publish", "done"}
                          \/ (S.pc = "thrown" /\ S.abort = "refetch")
    [] op = "create" -> S.pc \in {"refetch", "update", "publish", "done"}
                          \/ (S.pc = "thrown" /\ S.abort = "refetch")
    [] op = "update" -> S.pc \in {"publish", "done"}
    [] OTHER -> S.pc = "done" /\ S.abort = "ok"

\* C17: whichever chunks fail, batchDelete, batchCreate and batchUpdate each
\* attempt every chunk exactly once, return the total size of the chunks
\* that succeeded, and the error collector holds exactly one entry per failed
\* chunk.
C17_ChunksIndependent ==
  /\ Returned("delete") =>
       /\ EachChunkOnce("delete", S.allIdsToDelete)
       /\ S.totalDeleted = SumOk(LogOf("delete"), S.allIdsToDelete)
  /\ Returned("create") =>
       /\ EachChunkOnce("create", S.allToCreate)
       /\ S.created = SumOk(LogOf("create"), S.allToCreate)
  /\ Returned("update") =>
       /\ EachChunkOnce("update", S.updateEntries)
       /\ S.updatedEntries = SumOk(LogOf("update"), S.updateEntries)
  /\ S.abort = "ok" => S.errors = NumErrors(S.log)

\* C17 witness: a run has returned in which batchDelete had two chunks of
\* which the first failed and the second succeeded, and a chunk of
\* batchCreate and a chunk of batchUpdate failed as well.
C17_Witness ==
  /\ S.pc = "done"
  /\ Len(LogOf("delete")) = 2
  /\ LogOf("delete")[1].res = "error" /\ LogOf("delete")[2].res = "ok"
  /\ NumErrors(LogOf("create")) = 1
  /\ NumErrors(LogOf("update")) = 1
  /\ S.errors = 3

\* C18 as stated: in batchDelete the permanent delete of a chunk is the
\* request that follows the chunk's unpublish request, whether the unpublish
\* succeeded or failed.
C18_BothPhasesAttempted ==
  (lastReq.coll = "cities" /\ lastReq.kind = "deleteLive") => S.pc = "deletePerm"

\* C19: a publish request that fails with the site-not-published conflict is
\* the last publish request of the run, adds no error entry, leaves the
\* created, updated and deleted counts as the earlier steps set them, and
\* published is the size of the chunks published before it (0 when the
\* conflict hits the first chunk).
C19_PublishConflictIsSoft ==
  (S.pc = "done" /\ S.abort = "ok"
     /\ \E k \in 1..Len(LogOf("publish")) : LogOf("publish")[k].res = "conflict") =>
    /\ LogOf("publish")[Len(LogOf("publish"))].res = "conflict"
    /\ \A k \in 1..(Len(LogOf("publish")) - 1) : LogOf("publish")[k].res # "conflict"
    /\ S.errors = NumErrors(S.log)
    /\ S.published = SumOk(LogOf("publish"), S.allWebflowIds)
    /\ (LogOf("publish")[1].res = "conflict" => S.published = 0)
    /\ S.created = SumOk(LogOf("create"), S.allToCreate)
    /\ S.updated = SumOk(LogOf("update"), S.updateEntries) \div NumLocales
    /\ S.deleted = Min(SumOk(LogOf("delete"), S.allIdsToDelete),
                       Len(S.orphanIds) + Len(S.corruptedIds))

\* C19 witness: a run that created and updated three entities has returned
\* after the conflict hit its first publish chunk, with two chunks to
\* publish and no error entry.
C19_Witness ==
  /\ S.pc = "done" /\ S.abort = "ok"
  /\ Len(LogOf("publish")) = 1 /\ LogOf("publish")[1].res = "conflict"
  /\ Cardinality(Offsets(S.allWebflowIds)) = 2
  /\ S.created = 3 /\ S.updated = 3 /\ S.published = 0 /\ S.errors = 0


\* The stages of a run in the order the spec gives them.
StageRank(op) ==
  CASE op = "delete" -> 1 [] op = "create" -> 2 [] op = "reread" -> 3
    [] op = "update" -> 4 [] op = "publish" -> 5

\* C24: within one run the requests are issued in stage order, each after
\* the previous one has completed: deletes, then creates, then the re-read,
\* then updates, then publishes; and no update or publish is issued without
\* the re-read before it.
C24_StageOrder ==
  /\ \A i, j \in 1..Len(S.log) : i < j => StageRank(S.log[i].op) <= StageRank(S.log[j].op)
  /\ Cardinality({i \in 1..Len(S.log) : S.log[i].op = "reread"}) <= 1
  /\ (S.pc \in {"update", "publish"} \/ (S.pc = "done" /\ S.abort = "ok"))
       => \E i \in 1..Len(S.log) : S.log[i].op = "reread"
  /\ S.pc \in {"deleteLive", "deletePerm"} => \A i \in 1..Len(S.log) : S.log[i].op = "delete"
  /\ S.pc = "create" => \A i \in 1..Len(S.log) : S.log[i].op \in {"delete", "create"}
  /\ S.pc = "refetch" => \A i \in 1..Len(S.log) : S.log[i].op \in {"delete", "create"}
  /\ S.pc = "update" => \A i \in 1..Len(S.log) : S.log[i].op # "publish"

\* C24 witness: a run has returned after requests of all five stages, two
\* of them deletes.
C24_Witness ==
  /\ S.pc = "done"
  /\ \A op \in {"delete", "create", "reread", "update", "publish"} :
       \E i \in 1..Len(S.log) : S.log[i].op = op
  /\ Cardinality({i \in 1..Len(S.log) : S.log[i].op = "delete"}) >= 2


\* The entries of the update request batchUpdate is about to issue.
UpdateChunk == Chunk(S.updateEntries, S.off)

\* C25 as stated: every update request carries at most limit entries, the
\* entries of at most floor(limit / N) items for N locales, and all N
\* entries of an item it carries.
C25_UpdateChunksWholeItems ==
  S.pc = "update" =>
    /\ Len(UpdateChunk) <= limit
    /\ Cardinality({UpdateChunk[k].id : k \in 1..Len(UpdateChunk)}) <= limit \div NumLocales
    /\ \A k \in 1..Len(UpdateChunk) : \A j \in 1..Len(S.updateEntries) :
         S.updateEntries[j].id = UpdateChunk[k].id => (S.off < j /\ j <= S.off + limit)


\* The re-read of the run has returned and the update payload is built.
Reread == \E i \in 1..Len(S.log) : S.log[i].op = "reread"

\* The positions in the update payload of the entries naming a remote id.
EntriesOf(webflowId) ==
  {j \in 1..Len(S.updateEntries) : S.updateEntries[j].id = webflowId}

\* The local entities whose remote id the re-read found.
Known == {id \in LocalIdSet("cities") : Lookup(S.idByIdentifier, id) # NoRef}

\* C26: for every local entity whose remote id is known after the re-read
\* the update payload holds exactly one entry per configured locale, all
\* with that remote id, each with the identifier field and none with the
\* slug field; and it holds no other entry.
C26_UpdateEntries ==
  Reread =>
    /\ \A id \in Known :
         LET E == EntriesOf(Lookup(S.idByIdentifier, id)) IN
         /\ Cardinality(E) = NumLocales
         /\ {S.updateEntries[j].cmsLocaleId : j \in E} = Locales
         /\ \A j \in E :
              /\ "ext" \in DOMAIN S.updateEntries[j].fieldData
              /\ S.updateEntries[j].fieldData.ext = id
              /\ "slug" \notin DOMAIN S.updateEntries[j].fieldData
    /\ Len(S.updateEntries) = NumLocales * Cardinality(Known)

\* C26 witness: after the re-read one local entity has a known remote id
\* and another, whose create failed, has none.
C26_Witness ==
  /\ Reread /\ S.pc = "update"
  /\ Known # {}
  /\ LocalIdSet("cities") \ Known # {}


(***************************************************************************)
(* CLAIMS: the grouping and the categorization (checked under               *)
(* SpecCategorize)                                                          *)
(***************************************************************************)
\* The run on the cities has read and categorized the remote state S.seen.
Discovered == S.abort \in {"ok", "refetch"} /\ S.pc # "discover"

\* The remote items, as the run read them, that carry an identifier.
Mappable == {k \in 1..Len(S.seen) : ExtsOf(S.seen[k]) # {}}

\* A group is ambiguous: its variants disagree on the identifier, or another
\* group is filed under the same identifier.
Ambiguous(k) ==
  \/ Cardinality(ExtsOf(S.seen[k])) > 1
  \/ Cardinality(GroupsOf(S.seen, FirstExt(S.seen[k]))) > 1

\* The rule table: what becomes of a local entity with this identifier.
RuleOf(id) ==
  LET G == GroupsOf(S.seen, id) IN
  IF G = {} \/ \E k \in G : Ambiguous(k) THEN "create"
  ELSE IF \E k \in G : DOMAIN S.seen[k].v # Locales THEN "recreate"
  ELSE "update"

ItemIds(list) == {list[k].id : k \in 1..Len(list)}
RecreateItemIds == {S.toRecreate[k].item.id : k \in 1..Len(S.toRecreate)}

\* The remote ids of the groups filed under a set of local identifiers.
GroupIdsOf(ids) == {S.seen[k].id : k \in UNION {GroupsOf(S.seen, id) : id \in ids}}

\* C21: the categorization equals the rule table. Every group of an
\* identifier with several groups, and every corrupted group, is in the
\* delete set; an entity whose single clean group misses a locale is in
\* toRecreate, paired with the group's remote id, which is in the delete
\* set; an entity whose single clean group has every locale is in toUpdate;
\* an entity with no clean matching group is in toCreate; and the delete set
\* holds nothing but these and the orphans.
C21_RuleTable ==
  Discovered =>
    /\ \A id \in LocalIdSet("cities") :
         /\ RuleOf(id) = "create" <=> id \in ItemIds(S.toCreate)
         /\ RuleOf(id) = "recreate" <=> id \in RecreateItemIds
         /\ RuleOf(id) = "update" <=> id \in ItemIds(S.toUpdate)
    /\ \A k \in 1..Len(S.toRecreate) :
         {S.toRecreate[k].webflowId} = GroupIdsOf({S.toRecreate[k].item.id})
    /\ SeqToSet(S.corruptedIds) = {S.seen[k].id : k \in {k \in Mappable : Ambiguous(k)}}
    /\ SeqToSet(S.allIdsToDelete) =
         {S.seen[k].id : k \in {k \in Mappable : Ambiguous(k)}}
           \cup GroupIdsOf(RecreateItemIds)
           \cup {S.seen[k].id : k \in Orphans("cities")}

\* C21 witness: the run found one entity to recreate, one to create and a
\* corrupted group.
C21_Witness ==
  /\ Discovered
  /\ Len(S.toRecreate) = 1 /\ Len(S.toCreate) = 1
  /\ \E k \in Mappable : Cardinality(ExtsOf(S.seen[k])) > 1

\* C23: the action sets are disjoint. Every local entity (the ids are
\* unique) is in exactly one of toCreate, toRecreate and toUpdate, no remote
\* id occurs twice in the list handed to batchDelete, and the remote id of
\* no toUpdate entity is in it.
C23_ActionSetsDisjoint ==
  Discovered =>
    /\ Len(S.toCreate) + Len(S.toRecreate) + Len(S.toUpdate) = Len(local["cities"])
    /\ ItemIds(S.toCreate) \cup RecreateItemIds \cup ItemIds(S.toUpdate) = LocalIdSet("cities")
    /\ ItemIds(S.toCreate) \cap RecreateItemIds = {}
    /\ ItemIds(S.toCreate) \cap ItemIds(S.toUpdate) = {}
    /\ RecreateItemIds \cap ItemIds(S.toUpdate) = {}
    /\ Cardinality(SeqToSet(S.allIdsToDelete)) = Len(S.allIdsToDelete)
    /\ GroupIdsOf(ItemIds(S.toUpdate)) \cap SeqToSet(S.allIdsToDelete) = {}

\* C23 witness: the run found one entity to update and one to recreate.
C23_Witness ==
  /\ Discovered
  /\ Len(S.toUpdate) = 1 /\ Len(S.toRecreate) = 1
  /\ Len(S.allIdsToDelete) = 1

\* The remote items with this remote id, as the run read them.
SeenWithId(id) == {k \in 1..Len(S.seen) : S.seen[k].id = id}

\* C29: every group fetchAndMapItemsByIdentifier returns is flagged
\* corrupted exactly when its variants carry more than one distinct
\* non-empty identifier value, and is filed under the first non-empty value
\* in listing order.
C29_CorruptedIffDisagree ==
  Discovered =>
    \A i \in 1..Len(S.webflowMap) : \A j \in 1..Len(S.webflowMap[i].groups) :
      \A k \in SeenWithId(S.webflowMap[i].groups[j].id) :
        /\ ExtsOf(S.seen[k]) # {}
        /\ S.webflowMap[i].groups[j].corrupted <=> Cardinality(ExtsOf(S.seen[k])) > 1
        /\ S.webflowMap[i].ext = FirstExt(S.seen[k])

\* C29 witness: the reader returned a corrupted group and a clean group
\* under two identifiers.
C29_Witness ==
  /\ Discovered
  /\ Len(S.webflowMap) = 2
  /\ S.webflowMap[1].groups[1].corrupted
  /\ ~S.webflowMap[2].groups[1].corrupted


(***************************************************************************)
(* CLAIMS: ambiguous groups (checked under SpecPurge)                       *)
(***************************************************************************)
\* The remote ids of the groups that were duplicates or corrupted when the
\* run read the collection.
AmbiguousIds == {S.seen[k].id : k \in {k \in Mappable : Ambiguous(k)}}

\* C22 as stated: no update or publish request of a run names a group that
\* was one of several groups of an identifier, or corrupted, when the run
\* started, whatever requests of the run fail.
C22_AmbiguousNeverPatched ==
  (lastReq.coll = "cities" /\ lastReq.kind \in {"update", "publish"})
     => lastReq.ids \cap AmbiguousIds = {}


(***************************************************************************)
(* CLAIMS: syncAll (checked under SpecAll)                                  *)
(***************************************************************************)
\* The collections whose syncCollection call is under way.
MidRun == {c \in Colls : sy[c].pc \notin {"idle", "done", "thrown"}}

\* cleanupAll has been called.
InCleanup ==
  cu.pc \in {"cleanupList", "cleanupLive", "cleanupPerm", "orphans", "refList", "refUpdate", "done"}

\* C28: in syncAll the studios sync, the reading of its id maps included,
\* starts only after the categories sync and the cities sync have both
\* completed, and cleanupAll only after the studios sync has completed; no
\* sync runs beside the studios sync or beside cleanupAll.
C28_SyncAllOrder ==
  cu.mode = "syncAll" =>
    /\ sy["studios"].pc # "idle" => (sy["categories"].pc = "done" /\ sy["cities"].pc = "done")
    /\ (sy["studios"].cityIdMap # EmptyMap \/ sy["studios"].categoryIdMap # EmptyMap)
         => (sy["categories"].pc = "done" /\ sy["cities"].pc = "done")
    /\ "studios" \in MidRun => MidRun = {"studios"}
    /\ InCleanup => (sy["studios"].pc = "done" /\ MidRun = {})
    /\ cu.log # <<>> => sy["studios"].pc = "done"

\* C28 witness: cleanupAll is under way in a syncAll call in which the
\* studios sync resolved a reference through an id map and created a studio.
C28_Witness ==
  /\ cu.mode = "syncAll" /\ InCleanup /\ cu.log # <<>>
  /\ sy["studios"].cityIdMap # EmptyMap
  /\ sy["studios"].created > 0


(***************************************************************************)
(* CLAIMS: cleanupAll (checked under SpecCleanup)                           *)
(***************************************************************************)
\* The steps of cleanupAll in the order the spec gives them.
StepRank(step) ==
  CASE step = "studios" -> 1 [] step = "orphans" -> 2 [] step = "strip" -> 3
    [] step = "cities" -> 4 [] step = "categories" -> 5

StepsLogged == {cu.log[i].step : i \in 1..Len(cu.log)}

\* C27: cleanupAll acts in a fixed order, each step after the previous one
\* has completed: the orphaned studios are deleted, the cities and
\* categories about to be deleted are found and stripped from the remaining
\* studios, the orphaned cities are deleted, then the orphaned categories;
\* and the strip never patches a studio the first step deleted.
C27_CleanupOrder ==
  /\ \A i, j \in 1..Len(cu.log) : i < j => StepRank(cu.log[i].step) <= StepRank(cu.log[j].step)
  /\ StepsLogged \cap {"cities", "categories"} # {} => {"studios", "orphans"} \subseteq StepsLogged
  /\ (StepsLogged \cap {"cities", "categories"} # {}
        /\ (cu.cityIdsToDelete # <<>> \/ cu.categoryIdsToDelete # <<>>))
       => "strip" \in StepsLogged
  /\ "categories" \in StepsLogged => "cities" \in StepsLogged
  /\ cu.pc = "done" => {"studios", "orphans", "cities", "categories"} \subseteq StepsLogged
  /\ \A i \in 1..Len(cu.log) :
       cu.log[i].step = "strip" => cu.log[i].ids \cap SeqToSet(cu.deletedWebflowIds["studios"]) = {}

\* C27 witness: cleanupAll has completed after deleting a studio, patching
\* the remaining one, deleting a city and deleting a category.
C27_Witness ==
  /\ cu.pc = "done"
  /\ cu.deletedWebflowIds["studios"] # <<>> /\ cu.refUpdated > 0
  /\ cu.deletedWebflowIds["cities"] # <<>> /\ cu.deletedWebflowIds["categories"] # <<>>


\* The ids removeReferencesToItems is called with.
IdsToRemove == SeqToSet(cu.cityIdsToDelete) \cup SeqToSet(cu.categoryIdsToDelete)

\* The field data of a studio as the scan sees it: its first listed variant.
ScannedFields(it) == it.v[CHOOSE l \in DOMAIN it.v : \A m \in DOMAIN it.v : l <= m]

\* A list without the ids being deleted, the others in their order.
RECURSIVE Without(_, _)
Without(list, ids) ==
  IF list = <<>> THEN <<>>
  ELSE IF Head(list) \in ids THEN Without(Tail(list), ids)
  ELSE <<Head(list)>> \o Without(Tail(list), ids)

CatsStale(it) == \E j \in 1..Len(ScannedFields(it).cats) : ScannedFields(it).cats[j] \in IdsToRemove
CityStale(it) == ScannedFields(it).city # NoRef /\ ScannedFields(it).city \in IdsToRemove

\* The patch of a studio is the one the spec describes.
PatchAsSpecified(it) ==
  LET P == {j \in 1..Len(cu.itemsToUpdate) : cu.itemsToUpdate[j].id = it.id} IN
  IF CatsStale(it) \/ CityStale(it)
    THEN /\ Cardinality(P) = 1
         /\ \A j \in P :
              LET fd == cu.itemsToUpdate[j].fieldData IN
              /\ DOMAIN fd \subseteq {"cats", "city"}
              /\ "cats" \in DOMAIN fd <=> CatsStale(it)
              /\ "cats" \in DOMAIN fd => fd.cats = Without(ScannedFields(it).cats, IdsToRemove)
              /\ "city" \in DOMAIN fd <=> CityStale(it)
              /\ "city" \in DOMAIN fd => fd.city = NoRef
    ELSE P = {}

\* The scan of removeReferencesToItems has just returned.
Scanned ==
  /\ cu.log # <<>>
  /\ cu.log[Len(cu.log)].step = "strip" /\ cu.log[Len(cu.log)].kind = "list"

\* C30: for every studio and both reference fields the patch is the one the
\* spec describes: the categories list without the ids being deleted, the
\* others in their order; the city set to null when it is a deleted id; a
\* field holding no deleted id left out; and a studio with no changed field
\* in no update request.
C30_PatchAsSpecified ==
  /\ Scanned =>
       /\ \A k \in 1..Len(remote["studios"]) : PatchAsSpecified(remote["studios"][k])
       /\ cu.pc # "refUpdate" =>
            \A k \in 1..Len(remote["studios"]) :
              ~CatsStale(remote["studios"][k]) /\ ~CityStale(remote["studios"][k])
  /\ \A i \in 1..Len(cu.log) :
       (cu.log[i].step = "strip" /\ cu.log[i].kind = "updateLive")
          => cu.log[i].ids \subseteq {cu.itemsToUpdate[j].id : j \in 1..Len(cu.itemsToUpdate)}

\* C30 witness: the scan has found a studio with a list of two categories of
\* which one is being deleted, and a studio with no stale reference.
C30_Witness ==
  /\ Scanned /\ cu.pc = "refUpdate"
  /\ \E k \in 1..Len(remote["studios"]) :
       /\ Len(ScannedFields(remote["studios"][k]).cats) = 2
       /\ \E j \in 1..Len(cu.itemsToUpdate) :
            /\ cu.itemsToUpdate[j].id = remote["studios"][k].id
            /\ "cats" \in DOMAIN cu.itemsToUpdate[j].fieldData
            /\ Len(cu.itemsToUpdate[j].fieldData.cats) = 1
  /\ \E k \in 1..Len(remote["studios"]) :
       ~CatsStale(remote["studios"][k]) /\ ~CityStale(remote["studios"][k])

(***************************************************************************)
(* CLAIMS: the double delete (checked under SpecAll)                        *)
(***************************************************************************)
\* The step issues a remote request.
Requests == lastReq' # lastReq \/ fails' # fails \/ remote' # remote

\* The deleteItems request the step issues names the items of the payload
\* that a deleteItemsLive request of the same try block has unpublished, with
\* every configured locale id; when it succeeds no variant of these items is
\* left in the collection.
FollowsUnpublish(payload) ==
  /\ lastReq'.ids # {}
  /\ payload.ids = lastReq'.ids
  /\ payload.cmsLocaleIds = AllLocaleIds
  /\ lastReq'.ok =>
       \A k \in 1..Len(remote'[lastReq'.coll]) : remote'[lastReq'.coll][k].id \notin lastReq'.ids

\* C33: every delete of batchDelete and of cleanupDeletedItems is a double
\* delete: the permanent-delete request of a chunk is issued only after the
\* unpublish request for the same items has succeeded, and both name every
\* configured locale id for every item.
C33_DoubleDelete ==
  [][(Requests /\ lastReq'.kind = "delete") =>
       /\ \A c \in Colls : sy'[c] # sy[c] => FollowsUnpublish(sy[c].unpublished)
       /\ cu' # cu => FollowsUnpublish(cu.unpublished)
       /\ cu' # cu \/ \E c \in Colls : sy'[c] # sy[c]]_vars

\* C33 witness: a syncCollection run has deleted a chunk with batchDelete
\* and cleanupAll has deleted a chunk with cleanupDeletedItems, each by an
\* unpublish followed by a permanent delete, the last of them of an item
\* that had a variant in every locale.
C33_Witness ==
  /\ \E c \in Colls : sy[c].totalDeleted > 0
  /\ \E c \in Colls : cu.deletedWebflowIds[c] # <<>>
  /\ lastReq.kind = "delete" /\ lastReq.ok
  /\ cu.unpublished = NoPayload

(***************************************************************************)
(* CLAIMS: the paginated listing (checked under SpecPaging)                 *)
(***************************************************************************)
\* C34: the listing loops of fetchAllItems and fetchAndMapItemsByIdentifier
\* terminate for every sequence of remote responses whose reported total is
\* bounded, also when a page comes back empty before the total is reached:
\* a loop that goes on has fetched at least one row per request and fewer
\* rows than the largest total, so it makes at most MaxTotal requests (one
\* when MaxTotal is 0). When every response was the page of an unchanged
\* listing at the requested offset, the rows collected are the rows of the
\* collection, each once and in order.
C34_ListingTerminates ==
  /\ pg.pages <= (IF MaxTotal > 1 THEN MaxTotal ELSE 1)
  /\ pg.pc = "paging" => pg.pages <= pg.offset /\ pg.offset < MaxTotal
  /\ (pg.pc = "done" /\ pg.stable) => pg.allRows = ListItems(remote["cities"])

\* C34 witness: fetchAndMapItemsByIdentifier has returned after three pages
\* of an unchanged listing of more rows than one page holds, of an item with
\* variants in both locales among others.
C34_Witness ==
  /\ pg.fn = "fetchAndMapItemsByIdentifier"
  /\ pg.pc = "done"
  /\ pg.stable
  /\ pg.pages >= 2
  /\ Len(pg.allRows) > limit
  /\ \E k \in 1..Len(remote["cities"]) : DOMAIN remote["cities"][k].v = Locales

(***************************************************************************)
(* CLAIMS: unmappable items (checked under SpecUnmappable)                  *)
(***************************************************************************)
Cities == remote["cities"]
UnmappableCities == {k \in 1..Len(Cities) : Unmappable(Cities[k])}

\* C35: a remote item none of whose variants carries a value of the
\* identifier field is left unchanged: no step of a syncCollection run or of
\* cleanupDeletedItems issues a delete, update or publish request that names
\* it, and the item is in the collection after the step as it was before.
C35_UnmappableUntouched ==
  [][\A k \in UnmappableCities :
       /\ (lastReq'.coll = "cities" /\ lastReq'.kind # "list") => Cities[k].id \notin lastReq'.ids
       /\ \E j \in 1..Len(remote'["cities"]) : remote'["cities"][j] = Cities[k]]_vars

\* C35 witness: next to an item without identifier, cleanupDeletedItems has
\* deleted an orphan and a syncCollection run has created, updated and
\* published an entity; the item without identifier is still there.
C35_Witness ==
  /\ UnmappableCities # {}
  /\ cu.pc = "done"
  /\ cu.deletedWebflowIds["cities"] # <<>>
  /\ sy["cities"].pc = "done"
  /\ sy["cities"].updated > 0
  /\ sy["cities"].published > 0

(***************************************************************************)
(* CLAIMS: the counts of the result (checked under SpecCounts)              *)
(***************************************************************************)
\* The positions of list that lay in a chunk whose try block of operator op
\* ran to its end.
AcceptedIn(op, list) ==
  {j \in 1..Len(list) :
     \E k \in 1..Len(S.log) :
       /\ S.log[k].op = op /\ S.log[k].res = "ok"
       /\ S.log[k].off < j /\ j <= S.log[k].off + limit}

\* The delete stage of the run is over.
DeleteStageOver == S.abort = "ok" /\ S.pc \notin {"idle", "setup", "discover", "deleteLive", "deletePerm"}

\* allIdsToDelete lists the orphans, then the corrupted and duplicate
\* groups, then the groups to recreate.
PurgedOk == {j \in AcceptedIn("delete", S.allIdsToDelete) : j <= Len(S.orphanIds) + Len(S.corruptedIds)}

\* C36: the deleted count of a run equals the number of orphaned, corrupted
\* and duplicate groups whose double delete succeeded, and never counts a
\* group that was deleted to be recreated, whatever delete chunks fail.
C36_DeletedCount ==
  DeleteStageOver => S.deleted = Cardinality(PurgedOk)

\* The update stage of the run is over.
UpdateStageOver == S.abort = "ok" /\ S.pc \in {"publish", "done"}

\* The remote ids all of whose update entries lay in accepted requests.
FullyUpdated ==
  {id \in {S.updateEntries[j].id : j \in 1..Len(S.updateEntries)} :
     \A j \in 1..Len(S.updateEntries) :
       S.updateEntries[j].id = id => j \in AcceptedIn("update", S.updateEntries)}

\* C37: the updated count of a run equals the number of local entities for
\* which the update entry of every configured locale was accepted, and never
\* counts an entity of which only some entries were accepted, whatever
\* update chunks fail.
C37_UpdatedCount ==
  UpdateStageOver => S.updated = Cardinality(FullyUpdated)


(***************************************************************************)
(* CLAIMS: the ids of the update and publish stages (checked under          *)
(* SpecBatch)                                                               *)
(***************************************************************************)
\* The remote ids the re-read returned for the identifiers of local entities.
RereadIds == {Lookup(S.idByIdentifier, id) : id \in Known}

\* The local entities the re-read did not find.
NotFound == LocalIdSet("cities") \ Known

\* C38: after the re-read, every update entry and every publish id names a
\* remote id that the re-read returned for the identifier of a local entity,
\* and that id is the id of a remote item carrying that identifier; a local
\* entity the re-read did not find has no update entry and no publish id;
\* and every update and publish request names such ids only.
C38_OnlyRereadIds ==
  Reread =>
    /\ \A j \in 1..Len(S.updateEntries) : S.updateEntries[j].id \in RereadIds
    /\ \A j \in 1..Len(S.allWebflowIds) : S.allWebflowIds[j] \in RereadIds
    /\ \A id \in Known :
         /\ Lookup(S.idByIdentifier, id) \in RemoteIds("cities")
         /\ id \in ExtsOf(ItemOf("cities", Lookup(S.idByIdentifier, id)))
    /\ \A id \in NotFound :
         \A j \in 1..Len(S.updateEntries) : S.updateEntries[j].fieldData.ext # id
    /\ Len(S.allWebflowIds) = Cardinality(Known)
    /\ (lastReq.kind \in {"update", "publish"}) => lastReq.ids \subseteq RereadIds

\* C38 witness: the publish stage has issued a request after a re-read that
\* found one local entity and did not find another.
C38_Witness ==
  /\ Reread /\ lastReq.kind = "publish" /\ lastReq.ids # {}
  /\ Known # {} /\ NotFound # {}


(***************************************************************************)
(* CLAIMS: one remote group per identifier (checked under SpecSync)         *)
(***************************************************************************)
\* The items of a collection that carry identifier ext in some variant.
Carrying(items, ext) == {k \in 1..Len(items) : ext \in ExtsOf(items[k])}

\* C39 as stated: once a run on the cities has read the remote state, the
\* number of remote items carrying the identifier of a local entity is at
\* most one, or at most what the run found when it read the collection: the
\* create stage adds no second group beside one whose deletion failed.
C39_NoSecondGroup ==
  (Discovered /\ S.pc \notin {"idle", "setup"}) =>
    \A ext \in LocalIdSet("cities") :
      \/ Cardinality(Carrying(remote["cities"], ext)) <= 1
      \/ Cardinality(Carrying(remote["cities"], ext)) <= Cardinality(Carrying(S.seen, ext))


(***************************************************************************)
(* CLAIMS: what cleanupDeletedItems deletes and reports (checked under      *)
(* SpecOrphans)                                                             *)
(***************************************************************************)
\* The identifier of a remote item as cleanupDeletedItems reads it: the value
\* of the identifier field in the first variant the listing returns.
ListedIdentifier(it) == it.v[Head(LocaleSeq(it))].ext

\* The step issues a request of the given kinds on collection c.
Issues(c, kinds) == Requests /\ lastReq'.coll = c /\ lastReq'.kind \in kinds

\* What the step appends to a list of the result.
Appended(old, new) == SubSeq(new, Len(old) + 1, Len(new))

\* C40: every unpublish and delete request of cleanupDeletedItems names only
\* items of the collection whose identifier is not in the source id set; a
\* step adds to the result exactly when it is a successful permanent delete
\* that follows the successful unpublish of the same batch, and then it adds
\* the number of items of the batch, their remote ids and their identifiers;
\* deleted is always the length of deletedWebflowIds and of
\* deletedIdentifiers.
C40_CleanupResult ==
  [][\A c \in Colls :
       LET bothSucceeded == Issues(c, {"delete"}) /\ lastReq'.ok
                              /\ cu.unpublished.ids = lastReq'.ids
           ids == Appended(cu.deletedWebflowIds[c], cu'.deletedWebflowIds[c])
           identifiers == Appended(cu.deletedIdentifiers[c], cu'.deletedIdentifiers[c])
       IN
       /\ cu'.deleted[c] = Len(cu'.deletedWebflowIds[c])
       /\ cu'.deleted[c] = Len(cu'.deletedIdentifiers[c])
       /\ Issues(c, {"deleteLive", "delete"}) =>
            \A id \in lastReq'.ids :
              /\ id \in RemoteIds(c)
              /\ ListedIdentifier(ItemOf(c, id)) \notin SourceIds(c)
       /\ bothSucceeded =>
            /\ cu'.deleted[c] = cu.deleted[c] + Cardinality(lastReq'.ids)
            /\ Len(ids) = Cardinality(lastReq'.ids)
            /\ SeqToSet(ids) = lastReq'.ids
            /\ \A j \in 1..Len(ids) : identifiers[j] = ListedIdentifier(ItemOf(c, ids[j]))
       /\ ~bothSucceeded =>
            /\ cu'.deleted[c] = cu.deleted[c]
            /\ cu'.deletedWebflowIds[c] = cu.deletedWebflowIds[c]
            /\ cu'.deletedIdentifiers[c] = cu.deletedIdentifiers[c]]_vars

\* C40 witness: cleanupAll has returned; of the batches of orphaned cities
\* one was deleted and another failed, and a city whose identifier is a
\* source id is still in the collection.
C40_Witness ==
  /\ cu.pc = "done"
  /\ cu.deleted["cities"] > 0
  /\ cu.errors["cities"] > 0
  /\ \E k \in 1..Len(remote["cities"]) :
       ListedIdentifier(remote["cities"][k]) \in SourceIds("cities")

=============================================================================
